---- MODULE Spec2Model ----
(***************************************************************************)
(* Model of pyrateoptics' OpticalElement (raytracer/optical_element.py)    *)
(* and of the coordinate-tree base class it derives from                   *)
(* (raytracer/localcoordinatestreebase.py), and of the intersect methods   *)
(* of the shape classes (raytracer/surface_shape.py).                      *)
(*                                                                         *)
(* Python objects are modelled with their identity: a Surface, a Material, *)
(* a LocalCoordinates frame is a name (its id()); mutable attributes of    *)
(* an object are functions of that name.  Dictionaries are functions with  *)
(* a growing domain.  The key None is the string "None".                   *)
(***************************************************************************)
EXTENDS Integers, Sequences, FiniteSets, TLC

VARIABLES
    lcparent,       \* LocalCoordinates tree: frame -> parent frame, or NoParent
    lcname,         \* LocalCoordinates.name of every frame
    surfaces,       \* OpticalElement.surfaces: key -> Surface object
    surf_mat_connection, \* annotations["surf_mat_connection"]: key -> (minus, plus)
    materials,      \* OpticalElement.materials: key -> Material object
    comment,        \* Material.comment of every Material object
    regconn,        \* per stored entry: was its frame connected when it was stored
    ev,             \* the last call and its outcome (return / raise / warning)
    sequence,       \* the (surface key, options) sequence handed to a call
    hit,            \* result of sequence_to_hitlist, NoResult before the call
    hitseq,         \* hitlist_to_sequence: the sequence it returns for the hitlist
    pc,             \* seqtrace: position in the body of the loop over the sequence
    entry,          \* seqtrace: index of the sequence entry being processed
    ip,             \* seqtrace: index of rp in the two loops over rpaths
    current_material, \* seqtrace: local variable
    rpaths,         \* seqtrace: list of RayPath objects
    rpaths_new,     \* seqtrace: list of the RayPath objects branched at this entry
    paths,          \* RayPath object -> its raybundles list (RayBundle objects)
    heap,           \* RayBundle object -> its content
    calls,          \* the deflection calls made so far and what they returned
    lclocal,        \* LocalCoordinates parameters of every frame (tilt, decenter, order)
    lcglobal,       \* LocalCoordinates cached transform to the root, per frame
    conv,           \* the last point conversion asked of the frames and its results
    shape,          \* the Shape object intersect is called on: kind and parameters
    raybundle,      \* the RayBundle handed to intersect: stacks x, k, Efield, valid
    retval,         \* outcome of the intersect call: raised / returned value, per-ray t
    XYUVmatrices,   \* calculateXYUV: the dictionary it returns
    pilotraypath,   \* calculateXYUV: the bundles of the pilot RayPath it returns
    rpath,          \* para_seqtrace: the bundles of the RayPath of the real rays
    blocked,        \* per surface key: the rays its shape or aperture does not accept
    sagcall,        \* getSag: the batch of coordinates and the sag returned for it
    nearest,        \* choose_nearest: kvec, kvecs_new and the array returned
    pds,            \* Poisson2D: samplelist, activelist and grid of the generator
    sa              \* SimulatedAnnealingBackend.run: x, xapprox and loop position

elemvars == <<lcparent, lcname, surfaces, surf_mat_connection, materials,
              comment, regconn, ev>>
hitvars == <<sequence, hit, hitseq>>
tracevars == <<pc, entry, ip, current_material, rpaths, rpaths_new, paths,
               heap, calls>>
coordvars == <<lclocal, lcglobal, conv>>
shapevars == <<shape, raybundle, retval>>
xyuvvars == <<XYUVmatrices, pilotraypath, rpath, blocked>>
extravars == <<sagcall, nearest, pds, sa>>
othervars == <<coordvars, shapevars, xyuvvars, extravars>>
vars == <<elemvars, hitvars, tracevars, othervars>>

(***************************************************************************)
(* Bounds and input sets.                                                  *)
(***************************************************************************)
NumFrames == 2

RootLC == 0
NoParent == -1
Frames == 1 .. NumFrames
AllFrames == {RootLC} \cup Frames

SurfKeys == {"A", "B"}
SurfObjs == {"S1", "S2"}
MatKeys == {"m1", "m2"}
MatObjs == {"M1", "M2"}
None == "None"
Comments == {"c1", "c2"}
\* the (minus normal, plus normal) material keys callers bind surfaces to
ConnPairs == {<<None, None>>, <<None, "m1">>, <<"m1", "m2">>, <<"m2", None>>}
\* the pairs the registration calls are exercised with
RegPairs == {<<None, "m1">>, <<"m1", "m2">>}

\* Surface.rootcoordinatesystem and Material.lc of the objects handed in
SurfLC(s) == IF s = "S1" THEN 1 ELSE NumFrames
MatLC(m) == IF m = "M1" THEN RootLC ELSE NumFrames

Put(f, k, v) == [x \in (DOMAIN f) \cup {k} |-> IF x = k THEN v ELSE f[x]]
Get(f, k, default) == IF k \in DOMAIN f THEN f[k] ELSE default
EmptyMap == [x \in {} |-> 0]

(***************************************************************************)
(* LocalCoordinatesTreeBase                                                *)
(***************************************************************************)
RECURSIVE isBelowRoot(_, _, _)
isBelowRoot(par, lc, fuel) ==
    IF lc = RootLC THEN TRUE
    ELSE IF lc = NoParent \/ fuel = 0 THEN FALSE
    ELSE isBelowRoot(par, par[lc], fuel - 1)

\* rootcoordinatesystem.returnConnectedChildren(): the root and every frame
\* below it
returnConnectedChildren(par) ==
    {lc \in AllFrames : isBelowRoot(par, lc, NumFrames + 1)}

returnConnectedNames(par, names) ==
    {names[lc] : lc \in returnConnectedChildren(par)}

\* the connection check accepts every frame
checkForRootConnection_always(par, lc) == lc \in AllFrames

checkForRootConnection(par, lc) == lc \in returnConnectedChildren(par)

FreshName(lc) == <<"uuid", lc>>

(***************************************************************************)
(* LocalCoordinates: a rigid transform relative to the parent frame.       *)
(* Points and directions are triples of integers; the tilt is a number of  *)
(* quarter turns about the local z axis, so that every product is exact.   *)
(***************************************************************************)
VAdd(a, b) == <<a[1] + b[1], a[2] + b[2], a[3] + b[3]>>
VSub(a, b) == <<a[1] - b[1], a[2] - b[2], a[3] - b[3]>>

Rot(q, p) ==
    CASE q % 4 = 0 -> p
      [] q % 4 = 1 -> <<0 - p[2], p[1], p[3]>>
      [] q % 4 = 2 -> <<0 - p[1], 0 - p[2], p[3]>>
      [] q % 4 = 3 -> <<p[2], 0 - p[1], p[3]>>

\* transform to the parent frame: rotation, and the decenter taken before
\* or after the tilt according to the ordering flag
LocalTransform(prm) ==
    [rot |-> prm.tilt,
     dec |-> IF prm.tiltThenDecenter THEN Rot(prm.tilt, prm.dec) ELSE prm.dec]

Compose(g, l) ==
    [rot |-> (g.rot + l.rot) % 4, dec |-> VAdd(g.dec, Rot(g.rot, l.dec))]

\* transform to the top of the tree the frame hangs in
RECURSIVE GlobalTransform(_, _, _, _)
GlobalTransform(par, loc, f, fuel) ==
    IF par[f] = NoParent \/ fuel = 0 THEN LocalTransform(loc[f])
    ELSE Compose(GlobalTransform(par, loc, par[f], fuel - 1),
                 LocalTransform(loc[f]))

\* rootcoordinatesystem.update(): depth-first walk from the root; frames
\* outside the tree keep what they have cached
update(par, loc, glob) ==
    [f \in AllFrames |->
        IF f \in returnConnectedChildren(par)
        THEN GlobalTransform(par, loc, f, NumFrames + 1)
        ELSE glob[f]]

\* the inverse conversion applies the rotation without transposing it
returnGlobalToLocalPoints_sameRotation(g, p) == Rot(g.rot, VSub(p, g.dec))

returnLocalToGlobalPoints(g, p) == VAdd(g.dec, Rot(g.rot, p))
returnGlobalToLocalPoints(g, p) == Rot(4 - g.rot, VSub(p, g.dec))
returnLocalToGlobalDirections(g, d) == Rot(g.rot, d)
returnGlobalToLocalDirections(g, d) == Rot(4 - g.rot, d)
\* conversions between two frames, with global coordinates in between
returnOtherToActualPoints(actual, p, other) ==
    returnGlobalToLocalPoints(actual, returnLocalToGlobalPoints(other, p))
returnActualToOtherPoints(actual, p, other) ==
    returnGlobalToLocalPoints(other, returnLocalToGlobalPoints(actual, p))

\* parameters of the frames of the element: no tilt, decenter along z
DefaultLocal ==
    [f \in AllFrames |->
        [tilt |-> 0, dec |-> <<0, 0, f + 1>>, tiltThenDecenter |-> FALSE]]

\* an unknown reference name leaves the frame where it is
addLocalCoordinateSystem_noFallback(par, names, loc, glob, lc, refname) ==
    LET allnames == returnConnectedNames(par, names)
        newname == IF names[lc] \in allnames THEN FreshName(lc) ELSE names[lc]
        newpar == IF refname \notin allnames THEN par
                  ELSE [par EXCEPT ![lc] =
                           CHOOSE f \in returnConnectedChildren(par) :
                               names[f] = refname]
    IN  [par |-> newpar,
         names |-> [names EXCEPT ![lc] = newname],
         glob |-> update(newpar, loc, glob)]

\* addLocalCoordinateSystem(lc, refname): result is the new parent and name
\* maps and the transforms cached after rootcoordinatesystem.update()
addLocalCoordinateSystem(par, names, loc, glob, lc, refname) ==
    LET allnames == returnConnectedNames(par, names)
        newname == IF names[lc] \in allnames THEN FreshName(lc) ELSE names[lc]
        ref == IF refname \notin allnames THEN names[RootLC] ELSE refname
        target == CHOOSE f \in returnConnectedChildren(par) : names[f] = ref
        newpar == [par EXCEPT ![lc] = target]
    IN  [par |-> newpar,
         names |-> [names EXCEPT ![lc] = newname],
         glob |-> update(newpar, loc, glob)]

(***************************************************************************)
(* OpticalElement: registration                                            *)
(***************************************************************************)
\* the surface is stored and the pair recorded before the frame is checked
addSurface_storeFirst(par, surfs, conn, key, surface_object, materialkeys) ==
    [surfaces |-> Put(surfs, key, surface_object),
     conn |-> Put(conn, key, materialkeys),
     stored |-> TRUE,
     raised |-> ~checkForRootConnection(par, SurfLC(surface_object))]

\* an already registered key keeps its Surface object
addSurface_keepSurface(par, surfs, conn, key, surface_object, materialkeys) ==
    IF checkForRootConnection(par, SurfLC(surface_object))
    THEN [surfaces |-> IF key \in DOMAIN surfs THEN surfs
                       ELSE Put(surfs, key, surface_object),
          conn |-> Put(conn, key, materialkeys),
          stored |-> key \notin DOMAIN surfs,
          raised |-> FALSE]
    ELSE [surfaces |-> surfs, conn |-> conn, stored |-> FALSE, raised |-> TRUE]

addSurface(par, surfs, conn, key, surface_object, materialkeys) ==
    IF checkForRootConnection(par, SurfLC(surface_object))
    THEN [surfaces |-> Put(surfs, key, surface_object),
          conn |-> Put(conn, key, materialkeys),
          stored |-> TRUE,
          raised |-> FALSE]
    ELSE [surfaces |-> surfs, conn |-> conn, stored |-> FALSE, raised |-> TRUE]

changeMaterialsForSurface(conn, key, materialkeys) ==
    IF key \in DOMAIN conn THEN Put(conn, key, materialkeys) ELSE conn

\* a taken key is overwritten instead of being refused
addMaterial_overwrite(par, mats, comm, key, material_object, cmt) ==
    IF checkForRootConnection(par, MatLC(material_object))
    THEN [materials |-> Put(mats, key, material_object),
          comment |-> [comm EXCEPT ![material_object] = cmt],
          stored |-> TRUE,
          warned |-> key \in DOMAIN mats,
          raised |-> FALSE]
    ELSE [materials |-> mats, comment |-> comm, stored |-> FALSE,
          warned |-> FALSE, raised |-> TRUE]

addMaterial(par, mats, comm, key, material_object, cmt) ==
    IF checkForRootConnection(par, MatLC(material_object))
    THEN IF key \notin DOMAIN mats
         THEN [materials |-> Put(mats, key, material_object),
               comment |-> [comm EXCEPT ![material_object] = cmt],
               stored |-> TRUE,
               warned |-> FALSE,
               raised |-> FALSE]
         ELSE [materials |-> mats, comment |-> comm, stored |-> FALSE,
               warned |-> TRUE, raised |-> FALSE]
    ELSE [materials |-> mats, comment |-> comm, stored |-> FALSE,
          warned |-> FALSE, raised |-> TRUE]

\* op, key, obj, pair: the call and its arguments; existed: the key was
\* registered before the call; raised, warned: how the call ended
Event(op, key, obj, pair, existed, raised, warned) ==
    [op |-> op, key |-> key, obj |-> obj, pair |-> pair, existed |-> existed,
     raised |-> raised, warned |-> warned, lc |-> NoParent, refname |-> << >>]

NoResult == "NoResult"

\* no sequence_to_hitlist call and no seqtrace call is in progress
IdleHit == sequence = << >> /\ hit = NoResult /\ hitseq = NoResult

IdleTrace ==
    /\ pc = "idle"
    /\ entry = 0
    /\ ip = 0
    /\ current_material = None
    /\ rpaths = << >>
    /\ rpaths_new = << >>
    /\ paths = << >>
    /\ heap = << >>
    /\ calls = << >>

NoConversion == [frame |-> NoParent, other |-> NoParent, P |-> <<0, 0, 0>>,
                 back |-> <<0, 0, 0>>, backOther |-> <<0, 0, 0>>]

\* frames as the element's construction leaves them: default parameters,
\* every cached transform computed, no conversion asked
IdleCoord ==
    /\ lclocal = DefaultLocal
    /\ lcglobal = [f \in AllFrames |->
                      GlobalTransform(lcparent, lclocal, f, NumFrames + 1)]
    /\ conv = NoConversion

\* floating-point values: a finite number, or nan / inf
Num(v) == [fin |-> TRUE, v |-> v]
NaN == [fin |-> FALSE, v |-> 0]
FinVec(p) == [fin |-> TRUE, v |-> p]
NaNVec == [fin |-> FALSE, v |-> <<0, 0, 0>>]

NoShape == [kind |-> "none", curv |-> 0, cc |-> 0]
NoBundle == [x |-> << >>, k |-> << >>, Efield |-> << >>, valid |-> << >>]
NoCall == [op |-> "none", raised |-> FALSE, returned |-> "None",
           t |-> << >>, converged |-> << >>, valid |-> << >>]

\* no shape under test
IdleShape ==
    /\ shape = NoShape
    /\ raybundle = NoBundle
    /\ retval = NoCall

\* no calculateXYUV and no para_seqtrace call made
IdleXYUV ==
    /\ XYUVmatrices = EmptyMap
    /\ pilotraypath = << >>
    /\ rpath = << >>
    /\ blocked = [k \in SurfKeys |-> {}]

\* no call of getSag, choose_nearest, Poisson2D or the annealing backend
NoSag == [op |-> "none"]
NoNearest == [op |-> "none"]
NoPds == [op |-> "none"]
NoSa == [op |-> "none"]
IdleExtra == sagcall = NoSag /\ nearest = NoNearest /\ pds = NoPds /\ sa = NoSa

IdleOther == IdleCoord /\ IdleShape /\ IdleXYUV /\ IdleExtra

InitElem ==
    /\ lcparent = [lc \in AllFrames |-> NoParent]
    /\ lcname = [lc \in AllFrames |-> <<"lc", lc>>]
    /\ surfaces = EmptyMap
    /\ surf_mat_connection = EmptyMap
    /\ materials = EmptyMap
    /\ comment = [m \in MatObjs |-> ""]
    /\ regconn = [surf |-> EmptyMap, mat |-> EmptyMap]
    /\ ev = Event("init", None, None, None, FALSE, FALSE, FALSE)
    /\ IdleHit
    /\ IdleTrace
    /\ IdleOther

\* callers attach frames they have just constructed (not yet in any tree)
AddLocalCoordinateSystem ==
    \E lc \in Frames, ref \in AllFrames :
        /\ lcparent[lc] = NoParent
        /\ LET r == addLocalCoordinateSystem(lcparent, lcname, lclocal, lcglobal,
                                             lc, lcname[ref])
           IN  /\ lcparent' = r.par
               /\ lcname' = r.names
               /\ lcglobal' = r.glob
        /\ ev' = [Event("addLocalCoordinateSystem", None, None, None, FALSE,
                        FALSE, FALSE) EXCEPT !.lc = lc, !.refname = lcname[ref]]
        /\ UNCHANGED <<surfaces, surf_mat_connection, materials, comment, regconn>>
        /\ UNCHANGED <<hitvars, tracevars, lclocal, conv, shapevars, xyuvvars,
                   extravars>>

AddSurface ==
    \E key \in SurfKeys, obj \in SurfObjs, materialkeys \in RegPairs :
        LET r == addSurface(lcparent, surfaces, surf_mat_connection, key, obj,
                            materialkeys)
        IN  /\ surfaces' = r.surfaces
            /\ surf_mat_connection' = r.conn
            /\ regconn' = IF r.stored
                          THEN [regconn EXCEPT !.surf =
                                  Put(@, key, SurfLC(obj) \in
                                                returnConnectedChildren(lcparent))]
                          ELSE regconn
            /\ ev' = Event("addSurface", key, obj, materialkeys, key \in DOMAIN surfaces,
                           r.raised, FALSE)
            /\ UNCHANGED <<lcparent, lcname, materials, comment>>
            /\ UNCHANGED <<hitvars, tracevars, othervars>>

ChangeMaterialsForSurface ==
    \E key \in SurfKeys, materialkeys \in RegPairs :
        /\ surf_mat_connection' =
               changeMaterialsForSurface(surf_mat_connection, key, materialkeys)
        /\ ev' = Event("changeMaterialsForSurface", key, None, materialkeys,
                       key \in DOMAIN surf_mat_connection, FALSE, FALSE)
        /\ UNCHANGED <<lcparent, lcname, surfaces, materials, comment, regconn>>
        /\ UNCHANGED <<hitvars, tracevars, othervars>>

AddMaterial ==
    \E key \in MatKeys, obj \in MatObjs, cmt \in Comments :
        LET r == addMaterial(lcparent, materials, comment, key, obj, cmt)
        IN  /\ materials' = r.materials
            /\ comment' = r.comment
            /\ regconn' = IF r.stored
                          THEN [regconn EXCEPT !.mat =
                                  Put(@, key, MatLC(obj) \in
                                                returnConnectedChildren(lcparent))]
                          ELSE regconn
            /\ ev' = Event("addMaterial", key, None, None, key \in DOMAIN materials,
                           r.raised, r.warned)
            /\ UNCHANGED <<lcparent, lcname, surfaces, surf_mat_connection>>
            /\ UNCHANGED <<hitvars, tracevars, othervars>>

NextElem ==
    \/ AddLocalCoordinateSystem
    \/ AddSurface
    \/ ChangeMaterialsForSurface
    \/ AddMaterial

SpecElem == InitElem /\ [][NextElem]_vars

(***************************************************************************)
(* OpticalElement: sequences and hit lists                                 *)
(***************************************************************************)
MaxHitLen == 4

\* per-hit option dictionaries: {}, {"is_mirror": True}, {"is_mirror": False}
Options == {EmptyMap} \cup {[k \in {"is_mirror"} |-> b] : b \in BOOLEAN}
SeqEntries == SurfKeys \X Options
SeqsUpTo(S, n) == UNION {[1 .. k -> S] : k \in 0 .. n}

\* state of the loop of sequence_to_hitlist after the first i transitions
RECURSIVE hitlist_loop(_, _)
hitlist_loop(surfnames, i) ==
    IF i = 0
    THEN [hitlist_dict |-> EmptyMap, hitlist |-> << >>,
          optionshitlistdict |-> EmptyMap]
    ELSE LET acc == hitlist_loop(surfnames, i - 1)
             sb == surfnames[i][1]
             optsb == surfnames[i][2]
             se == surfnames[i + 1][1]
             optse == surfnames[i + 1][2]
             hitn == Get(acc.hitlist_dict, <<sb, se>>, 0) + 1
         IN  [hitlist_dict |-> Put(acc.hitlist_dict, <<sb, se>>, hitn),
              hitlist |-> Append(acc.hitlist, <<sb, se, hitn>>),
              optionshitlistdict |->
                  Put(acc.optionshitlistdict, <<sb, se, hitn>>, <<optsb, optse>>)]

\* the same loop counting a transition whatever its direction
RECURSIVE hitlist_loop_unordered(_, _)
hitlist_loop_unordered(surfnames, i) ==
    IF i = 0
    THEN [hitlist_dict |-> EmptyMap, hitlist |-> << >>,
          optionshitlistdict |-> EmptyMap]
    ELSE LET acc == hitlist_loop_unordered(surfnames, i - 1)
             sb == surfnames[i][1]
             optsb == surfnames[i][2]
             se == surfnames[i + 1][1]
             optse == surfnames[i + 1][2]
             pair == {sb, se}
             hitn == Get(acc.hitlist_dict, pair, 0) + 1
         IN  [hitlist_dict |-> Put(acc.hitlist_dict, pair, hitn),
              hitlist |-> Append(acc.hitlist, <<sb, se, hitn>>),
              optionshitlistdict |->
                  Put(acc.optionshitlistdict, <<sb, se, hitn>>, <<optsb, optse>>)]

sequence_to_hitlist_unordered(seq) ==
    LET r == hitlist_loop_unordered(seq, IF Len(seq) = 0 THEN 0 ELSE Len(seq) - 1)
    IN  <<r.hitlist, r.optionshitlistdict>>

\* zip(surfnames[:-1], surfnames[1:]) has max(len - 1, 0) elements
sequence_to_hitlist(seq) ==
    LET r == hitlist_loop(seq, IF Len(seq) = 0 THEN 0 ELSE Len(seq) - 1)
    IN  <<r.hitlist, r.optionshitlistdict>>

InitHit ==
    /\ lcparent = [lc \in AllFrames |-> NoParent]
    /\ lcname = [lc \in AllFrames |-> <<"lc", lc>>]
    /\ surfaces = EmptyMap
    /\ surf_mat_connection = EmptyMap
    /\ materials = EmptyMap
    /\ comment = [m \in MatObjs |-> ""]
    /\ regconn = [surf |-> EmptyMap, mat |-> EmptyMap]
    /\ ev = Event("init", None, None, None, FALSE, FALSE, FALSE)
    /\ sequence \in SeqsUpTo(SeqEntries, MaxHitLen)
    /\ hit = NoResult
    /\ hitseq = NoResult
    /\ IdleTrace
    /\ IdleOther

SequenceToHitlist ==
    /\ hit = NoResult
    /\ hit' = sequence_to_hitlist(sequence)
    /\ UNCHANGED <<sequence, hitseq, elemvars, tracevars, othervars>>

\* the second options of the transition used for every entry
hitlist_to_sequence_endOptions(h) ==
    LET hitlist == h[1]
        optionshitlistdict == h[2]
        n == Len(hitlist)
    IN  [ind \in 1 .. n |->
             <<hitlist[ind][1], TRUE, optionshitlistdict[hitlist[ind]][2]>>]
        \o (IF n = 0 THEN << >>
            ELSE << <<hitlist[n][2], TRUE, optionshitlistdict[hitlist[n]][2]>> >>)

\* lines 153-163: one (sb, True, first options) per hit and, after the last
\* hit, (se, True, second options)
hitlist_to_sequence(h) ==
    LET hitlist == h[1]
        optionshitlistdict == h[2]
        n == Len(hitlist)
    IN  [ind \in 1 .. n |->
             <<hitlist[ind][1], TRUE, optionshitlistdict[hitlist[ind]][1]>>]
        \o (IF n = 0 THEN << >>
            ELSE << <<hitlist[n][2], TRUE, optionshitlistdict[hitlist[n]][2]>> >>)

HitlistToSequence ==
    /\ hit # NoResult
    /\ hitseq = NoResult
    /\ hitseq' = hitlist_to_sequence(hit)
    /\ UNCHANGED <<sequence, hit, elemvars, tracevars, othervars>>

NextHit == SequenceToHitlist \/ HitlistToSequence

SpecHit == InitHit /\ [][NextHit]_vars

(***************************************************************************)
(* OpticalElement.seqtrace                                                 *)
(*                                                                         *)
(* RayPath and RayBundle objects live on a heap: paths[p] is the           *)
(* raybundles list of RayPath object p, heap[b] the content of RayBundle   *)
(* object b.  A bundle's content is abstract: lin is the sequence of       *)
(* returned-bundle indices it descends from (one per deflection), op, mat  *)
(* and surf are the deflection that produced it, and hist lists the        *)
(* propagations applied to it in place.  The number of bundles a material  *)
(* returns from refract / reflect is chosen by the material (splitup is    *)
(* only forwarded to it).                                                  *)
(***************************************************************************)
MaxSeqLen == 2
MaxPaths == 4

Background == "BG"

\* the option dictionaries callers build for a trace: {} and {"is_mirror": True}
TraceOptions == {EmptyMap, [k \in {"is_mirror"} |-> TRUE]}

\* parameter values of the materials: M1 and M2 are distinct objects with
\* equal values
MatValue(m) == IF m = Background THEN "vacuum" ELSE "glass"

Seed == [lin |-> << >>, op |-> "seed", mat |-> None, surf |-> None, hist |-> << >>]

\* comparison of the parameter values instead of the objects
findoutWhichMaterial_byValue(mat1, mat2, current_mat) ==
    IF MatValue(mat1) = MatValue(current_mat) THEN mat2 ELSE mat1

\* the current material kept when it is on neither side
findoutWhichMaterial_keepCurrent(mat1, mat2, current_mat) ==
    IF mat1 = current_mat THEN mat2
    ELSE IF mat2 = current_mat THEN mat1 ELSE current_mat

findoutWhichMaterial(mat1, mat2, current_mat) ==
    IF mat1 = current_mat THEN mat2 ELSE mat1

\* RayPath.appendRayBundle
appendRayBundle(pths, rp, rb) == [pths EXCEPT ![rp] = Append(@, rb)]

\* Material.propagate(bundle, surface): advances the bundle in place
propagate(hp, rb, mat, surf) ==
    [hp EXCEPT ![rb].hist = Append(@, <<mat, surf>>)]

\* Material.refract / reflect: n new RayBundle objects, b + 1 .. b + n
deflected(hp, rb, op, mat, surf, n) ==
    [j \in 1 .. n |-> [lin |-> Append(hp[rb].lin, j - 1), op |-> op,
                       mat |-> mat, surf |-> surf, hist |-> << >>]]

\* a new RayPath whose list holds the very same RayBundle objects
deepcopy_shallow(pths, hp, rp) ==
    [paths |-> Append(pths, pths[rp]), heap |-> hp, new |-> Len(pths) + 1]

\* no copy at all: the branch is the parent object
deepcopy_alias(pths, hp, rp) ==
    [paths |-> pths, heap |-> hp, new |-> rp]

\* copy.deepcopy(rp): a new RayPath with a new list of new RayBundle objects
deepcopy(pths, hp, rp) ==
    LET n == Len(pths[rp])
        base == Len(hp)
    IN  [paths |-> Append(pths, [i \in 1 .. n |-> base + i]),
         heap |-> hp \o [i \in 1 .. n |-> hp[pths[rp][i]]],
         new |-> Len(pths) + 1]

\* the loop over raybundles[1:] (lines 370-374), from returned bundle j on
RECURSIVE branch_loop(_, _, _, _, _)
branch_loop(st, rp, first, j, n) ==
    IF j > n THEN st
    ELSE LET c == deepcopy(st.paths, st.heap, rp)
         IN  branch_loop([paths |-> appendRayBundle(c.paths, c.new, first + j),
                          heap |-> c.heap,
                          rpaths_new |-> Append(st.rpaths_new, c.new)],
                         rp, first, j + 1, n)

\* one iteration of the second loop over rpaths with the first returned
\* bundle appended before the copies are taken
deflect_one_appendFirst(pths, hp, new, rp, op, mat, surf, n) ==
    LET cur == pths[rp][Len(pths[rp])]
        first == Len(hp)
        hp1 == hp \o deflected(hp, cur, op, mat, surf, n)
        st == branch_loop([paths |-> appendRayBundle(pths, rp, first + 1),
                           heap |-> hp1, rpaths_new |-> new],
                          rp, first, 2, n)
    IN  st

\* one iteration with a copy taken for every returned bundle (raybundles
\* instead of raybundles[1:])
deflect_one_copyAll(pths, hp, new, rp, op, mat, surf, n) ==
    LET cur == pths[rp][Len(pths[rp])]
        first == Len(hp)
        hp1 == hp \o deflected(hp, cur, op, mat, surf, n)
        st == branch_loop([paths |-> pths, heap |-> hp1, rpaths_new |-> new],
                          rp, first, 1, n)
    IN  [st EXCEPT !.paths = appendRayBundle(@, rp, first + 1)]

\* one iteration of the second loop over rpaths (lines 363-375): the
\* material returns n bundles; every one after the first goes to a deep copy
\* of rp, the first one is appended to rp itself
deflect_one(pths, hp, new, rp, op, mat, surf, n) ==
    LET cur == pths[rp][Len(pths[rp])]
        first == Len(hp)
        hp1 == hp \o deflected(hp, cur, op, mat, surf, n)
        st == branch_loop([paths |-> pths, heap |-> hp1, rpaths_new |-> new],
                          rp, first, 2, n)
    IN  [st EXCEPT !.paths = appendRayBundle(@, rp, first + 1)]

\* the branches put in front of the existing paths
merge_paths_newFirst(old, new) == new \o old

\* rpaths = rpaths + rpaths_new
merge_paths(old, new) == old \o new

surfkey == sequence[entry][1]
surfoptions == sequence[entry][2]
refract_flag == ~Get(surfoptions, "is_mirror", FALSE)
current_surface == surfaces[surfkey]
mnmat == Get(materials, surf_mat_connection[surfkey][1], Background)
\* the current material as the default of the lookup
pnmat_currentDefault ==
    Get(materials, surf_mat_connection[surfkey][2], current_material)
pnmat == Get(materials, surf_mat_connection[surfkey][2], Background)

InitTrace ==
    /\ lcparent = [lc \in AllFrames |-> IF lc = RootLC THEN NoParent ELSE RootLC]
    /\ lcname = [lc \in AllFrames |-> <<"lc", lc>>]
    /\ surfaces = [k \in SurfKeys |-> IF k = "A" THEN "S1" ELSE "S2"]
    /\ surf_mat_connection \in [SurfKeys -> ConnPairs]
    /\ materials = [k \in MatKeys |-> IF k = "m1" THEN "M1" ELSE "M2"]
    /\ comment = [m \in MatObjs |-> ""]
    /\ regconn = [surf |-> [k \in SurfKeys |-> TRUE],
                  mat |-> [k \in MatKeys |-> TRUE]]
    /\ ev = Event("init", None, None, None, FALSE, FALSE, FALSE)
    /\ sequence \in SeqsUpTo(SurfKeys \X TraceOptions, MaxSeqLen)
    /\ hit = NoResult
    /\ hitseq = NoResult
    /\ IdleTrace
    /\ IdleOther

\* the two methods exchanged
current_material_deflection_swapped(flag) ==
    IF flag THEN "reflect" ELSE "refract"

\* lines 360-361 and 367: {True: refract, False: reflect}[refract_flag]
current_material_deflection(flag) ==
    IF flag THEN "refract" ELSE "reflect"

\* lines 328-331: the call starts with the background medium as current
\* material and one RayPath holding the bundle passed in
Seqtrace ==
    /\ pc = "idle"
    /\ current_material' = Background
    /\ heap' = <<Seed>>
    /\ paths' = << <<1>> >>
    /\ rpaths' = <<1>>
    /\ entry' = 1
    /\ pc' = "entry"
    /\ UNCHANGED <<ip, rpaths_new, calls, elemvars, hitvars, othervars>>

\* the same lookups made in the materials dictionary instead
entry_known_inMaterials(surfs, conn, mats, key) ==
    key \in DOMAIN mats

\* lines 342-346: self.surfaces[surfkey] and self.surf_mat_connection[surfkey]
\* are plain dictionary subscripts
entry_known(surfs, conn, mats, key) ==
    key \in DOMAIN surfs /\ key \in DOMAIN conn

\* lines 336-346: next sequence entry; an unknown key raises KeyError
BeginEntry ==
    /\ pc = "entry"
    /\ entry <= Len(sequence)
    /\ IF entry_known(surfaces, surf_mat_connection, materials, surfkey)
       THEN /\ pc' = "propagate"
            /\ rpaths_new' = << >>
            /\ ip' = 1
       ELSE /\ pc' = "raised"
            /\ UNCHANGED <<rpaths_new, ip>>
    /\ UNCHANGED <<entry, current_material, rpaths, paths, heap, calls,
                   elemvars, hitvars, othervars>>

\* lines 349-351, one rp
Propagate ==
    /\ pc = "propagate"
    /\ ip <= Len(rpaths)
    /\ LET rp == rpaths[ip]
           current_bundle == paths[rp][Len(paths[rp])]
       IN  heap' = propagate(heap, current_bundle, current_material,
                             current_surface)
    /\ ip' = ip + 1
    /\ UNCHANGED <<pc, entry, current_material, rpaths, rpaths_new, paths,
                   calls, elemvars, hitvars, othervars>>

\* the material is switched and the deflection loop entered while paths
\* are still waiting to be propagated
SwitchMaterial_early ==
    /\ pc = "propagate"
    /\ ip >= 1
    /\ current_material' =
           IF refract_flag
           THEN findoutWhichMaterial(mnmat, pnmat, current_material)
           ELSE current_material
    /\ pc' = "deflect"
    /\ ip' = 1
    /\ UNCHANGED <<entry, rpaths, rpaths_new, paths, heap, calls, elemvars,
                   hitvars, othervars>>

\* lines 353-361
SwitchMaterial ==
    /\ pc = "propagate"
    /\ ip > Len(rpaths)
    /\ current_material' =
           IF refract_flag
           THEN findoutWhichMaterial(mnmat, pnmat, current_material)
           ELSE current_material
    /\ pc' = "deflect"
    /\ ip' = 1
    /\ UNCHANGED <<entry, rpaths, rpaths_new, paths, heap, calls, elemvars,
                   hitvars, othervars>>

\* the branches appended to the list the loop is iterating over
Deflect_growingList ==
    /\ pc = "deflect"
    /\ ip <= Len(rpaths)
    /\ \E n \in 1 .. (MaxPaths + 1 - Len(rpaths) - Len(rpaths_new)) :
           LET op == current_material_deflection(refract_flag)
               r == deflect_one(paths, heap, << >>, rpaths[ip], op,
                                current_material, current_surface, n)
           IN  /\ paths' = r.paths
               /\ heap' = r.heap
               /\ rpaths' = rpaths \o r.rpaths_new
               /\ calls' = Append(calls, [entry |-> entry, rp |-> ip, op |-> op,
                                          mat |-> current_material, n |-> n])
    /\ ip' = ip + 1
    /\ UNCHANGED <<pc, entry, current_material, rpaths_new, elemvars, hitvars,
                   othervars>>

\* lines 363-375, one rp
Deflect ==
    /\ pc = "deflect"
    /\ ip <= Len(rpaths)
    /\ \E n \in 1 .. (MaxPaths + 1 - Len(rpaths) - Len(rpaths_new)) :
           LET op == current_material_deflection(refract_flag)
               r == deflect_one(paths, heap, rpaths_new, rpaths[ip], op,
                                current_material, current_surface, n)
           IN  /\ paths' = r.paths
               /\ heap' = r.heap
               /\ rpaths_new' = r.rpaths_new
               /\ calls' = Append(calls, [entry |-> entry, rp |-> ip, op |-> op,
                                          mat |-> current_material, n |-> n])
    /\ ip' = ip + 1
    /\ UNCHANGED <<pc, entry, current_material, rpaths, elemvars, hitvars, othervars>>

\* line 377
EndEntry ==
    /\ pc = "deflect"
    /\ ip > Len(rpaths)
    /\ rpaths' = merge_paths(rpaths, rpaths_new)
    /\ entry' = entry + 1
    /\ pc' = "entry"
    /\ UNCHANGED <<ip, current_material, rpaths_new, paths, heap, calls,
                   elemvars, hitvars, othervars>>

\* line 379
Return ==
    /\ pc = "entry"
    /\ entry > Len(sequence)
    /\ pc' = "done"
    /\ UNCHANGED <<entry, ip, current_material, rpaths, rpaths_new, paths,
                   heap, calls, elemvars, hitvars, othervars>>

NextTrace ==
    \/ Seqtrace
    \/ BeginEntry
    \/ Propagate
    \/ SwitchMaterial
    \/ Deflect
    \/ EndEntry
    \/ Return

SpecTrace == InitTrace /\ [][NextTrace]_vars

\* seqtrace called with any sequence: keys of registered surfaces and a key
\* that was never registered
UnknownKey == "C"
AnyKeys == SurfKeys \cup {UnknownKey}

InitTraceAny ==
    /\ lcparent = [lc \in AllFrames |-> IF lc = RootLC THEN NoParent ELSE RootLC]
    /\ lcname = [lc \in AllFrames |-> <<"lc", lc>>]
    /\ surfaces = [k \in SurfKeys |-> IF k = "A" THEN "S1" ELSE "S2"]
    /\ surf_mat_connection = [k \in SurfKeys |->
                                 IF k = "A" THEN <<None, "m1">>
                                            ELSE <<"m1", "m2">>]
    /\ materials = [k \in MatKeys |-> IF k = "m1" THEN "M1" ELSE "M2"]
    /\ comment = [m \in MatObjs |-> ""]
    /\ regconn = [surf |-> [k \in SurfKeys |-> TRUE],
                  mat |-> [k \in MatKeys |-> TRUE]]
    /\ ev = Event("init", None, None, None, FALSE, FALSE, FALSE)
    /\ sequence \in SeqsUpTo(AnyKeys \X TraceOptions, MaxSeqLen)
    /\ hit = NoResult
    /\ hitseq = NoResult
    /\ IdleTrace
    /\ IdleOther

SpecTraceAny == InitTraceAny /\ [][NextTrace]_vars

\* content of the bundles a RayPath object holds
PathContent(p) == [i \in 1 .. Len(paths[p]) |-> heap[paths[p][i]]]

\* RayPath.containsSplitted, as the derived boolean: another returned path
\* shares a strict, non-empty prefix with this one
containsSplit(i) ==
    \E j \in 1 .. Len(rpaths) :
        /\ j # i
        /\ \E n \in 1 .. Len(paths[rpaths[i]]) - 1 :
               /\ n <= Len(paths[rpaths[j]])
               /\ \A k \in 1 .. n :
                      heap[paths[rpaths[i]][k]] = heap[paths[rpaths[j]][k]]

(***************************************************************************)
(* Point conversions of the frames of a tree                               *)
(***************************************************************************)
\* parameters a frame is given: no tilt, a quarter turn with the decenter
\* taken before it, three quarter turns with the decenter taken after them
LocalParams ==
    {[tilt |-> 0, dec |-> <<0, 0, 2>>, tiltThenDecenter |-> FALSE],
     [tilt |-> 1, dec |-> <<1, 0, 2>>, tiltThenDecenter |-> FALSE],
     [tilt |-> 3, dec |-> <<0, 2, 1>>, tiltThenDecenter |-> TRUE]}

\* the points handed to the conversions
Points == {<<1, 2, 3>>, <<0 - 2, 0, 1>>}

UpToDate ==
    lcglobal = [f \in AllFrames |->
                   GlobalTransform(lcparent, lclocal, f, NumFrames + 1)]

\* a chain of frames below the root, all transforms computed
InitCoord ==
    /\ lcparent = [lc \in AllFrames |-> IF lc = RootLC THEN NoParent ELSE lc - 1]
    /\ lcname = [lc \in AllFrames |-> <<"lc", lc>>]
    /\ surfaces = EmptyMap
    /\ surf_mat_connection = EmptyMap
    /\ materials = EmptyMap
    /\ comment = [m \in MatObjs |-> ""]
    /\ regconn = [surf |-> EmptyMap, mat |-> EmptyMap]
    /\ ev = Event("init", None, None, None, FALSE, FALSE, FALSE)
    /\ IdleHit
    /\ IdleTrace
    /\ lclocal \in {loc \in [AllFrames -> LocalParams \cup {DefaultLocal[RootLC]}] :
                       /\ loc[RootLC] = DefaultLocal[RootLC]
                       /\ \A f \in Frames : loc[f] \in LocalParams}
    /\ UpToDate
    /\ conv = NoConversion
    /\ IdleShape
    /\ IdleXYUV
    /\ IdleExtra

\* a parameter of one frame is changed; nothing is recomputed
SetLocal ==
    \E f \in Frames, prm \in LocalParams :
        /\ UpToDate
        /\ prm # lclocal[f]
        /\ lclocal' = [lclocal EXCEPT ![f] = prm]
        /\ UNCHANGED <<lcglobal, conv, elemvars, hitvars, tracevars, shapevars, xyuvvars,
                   extravars>>

Update ==
    /\ ~UpToDate
    /\ lcglobal' = update(lcparent, lclocal, lcglobal)
    /\ UNCHANGED <<lclocal, conv, elemvars, hitvars, tracevars, shapevars, xyuvvars,
                   extravars>>

\* P is taken from global to the frame's coordinates and back, and from
\* the other frame's coordinates to the frame's and back
Convert ==
    \E f \in AllFrames, o \in AllFrames, P \in Points :
        /\ conv' = [frame |-> f, other |-> o, P |-> P,
                    back |-> returnLocalToGlobalPoints(lcglobal[f],
                                 returnGlobalToLocalPoints(lcglobal[f], P)),
                    backOther |-> returnActualToOtherPoints(lcglobal[f],
                                      returnOtherToActualPoints(lcglobal[f], P,
                                                                lcglobal[o]),
                                      lcglobal[o])]
        /\ UNCHANGED <<lclocal, lcglobal, elemvars, hitvars, tracevars, shapevars, xyuvvars,
                   extravars>>

NextCoord ==
    \/ SetLocal
    \/ Update
    \/ Convert

SpecCoord == InitCoord /\ [][NextCoord]_vars

(***************************************************************************)
(* Shape.intersect (raytracer/surface_shape.py)                            *)
(*                                                                         *)
(* A RayBundle is the four stacks x, k, Efield, valid; every stack entry   *)
(* holds one value per ray.  Coordinates are integers and the inputs are   *)
(* those for which the square root and the quotient of the path length    *)
(* are exact, so that t is the number numpy computes.                      *)
(***************************************************************************)
NumRays == 2
RayIds == 1 .. NumRays

\* the frame of the shape (self.lc)
ShapeLC == 1

\* last position and wave-vector of the rays when intersect is called
StartPoints == {<<0, 0, 0>>, <<1, 0, 0>>, <<2, 0, 0>>, <<0, 1, 1>>}
WaveVectors == {<<0, 0, 1>>, <<0, 0, 0 - 1>>, <<1, 0, 0>>}

\* Conic and Cylinder: plane, sphere, paraboloid.  ExplicitShape: the sag
\* function F(x, y) = curv * x.  ImplicitShape: F(x, y, z) = z - curv * x.
ShapeInputs ==
    {[kind |-> kd, curv |-> p[1], cc |-> p[2]] :
        kd \in {"Conic", "Cylinder"},
        p \in {<<0, 0>>, <<1, 0>>, <<1, 0 - 1>>}}
    \cup {[kind |-> kd, curv |-> c, cc |-> 0] :
            kd \in {"ExplicitShape", "ImplicitShape"}, c \in {0, 1}}

Abs(n) == IF n < 0 THEN 0 - n ELSE n
ISqrt(n) == CHOOSE r \in 0 .. n : r * r <= n /\ (r + 1) * (r + 1) > n
Divides(d, n) == \E q \in (0 - Abs(n)) .. Abs(n) : q * d = n
Quot(n, d) == CHOOSE q \in (0 - Abs(n)) .. Abs(n) : q * d = n
Scale(d, t) == <<d[1] * t, d[2] * t, d[3] * t>>

\* RayBundle.returnKtoD: the inputs are unit wave-vectors
returnKtoD(k) == k

\* RayBundle.append(newx, newk, newEfield, newvalid)
append(rb, newx, newk, newEfield, newvalid) ==
    [x |-> Append(rb.x, newx), k |-> Append(rb.k, newk),
     Efield |-> Append(rb.Efield, newEfield),
     valid |-> Append(rb.valid, newvalid)]

Last(stack) == stack[Len(stack)]

\* lines 150-154
getLocalRayBundleForIntersect(g, rb, i) ==
    [localo |-> returnGlobalToLocalPoints(g, Last(rb.x)[i].v),
     locald |-> returnGlobalToLocalDirections(g, returnKtoD(Last(rb.k)[i]))]

\* line 308 with the factor 2 left out
Conic_G_noFactor(curv, cc, r0) ==
    curv * (r0[1] * r0[1] + r0[2] * r0[2] + r0[3] * r0[3] * (1 + cc)) - r0[3]

\* lines 307-309
Conic_F(curv, cc, r0, rayDir) ==
    rayDir[3] - curv * (rayDir[1] * r0[1] + rayDir[2] * r0[2]
                        + rayDir[3] * r0[3] * (1 + cc))
Conic_G(curv, cc, r0) ==
    curv * (r0[1] * r0[1] + r0[2] * r0[2] + r0[3] * r0[3] * (1 + cc))
    - 2 * r0[3]
Conic_H(curv, cc, rayDir) == 0 - curv - cc * curv * rayDir[3] * rayDir[3]

\* lines 373-375
Cylinder_F(curv, cc, r0, rayDir) ==
    rayDir[3] - curv * (rayDir[2] * r0[2] + rayDir[3] * r0[3] * (1 + cc))
Cylinder_G(curv, cc, r0) ==
    curv * (r0[2] * r0[2] + r0[3] * r0[3] * (1 + cc)) - 2 * r0[3]

Square(F, G, H) == F * F + H * G

\* lines 313-315 and 379: t = G / (F + sqrt(square)); the square root of a
\* negative number is nan, a division by zero gives inf or nan
PathLength(F, G, H) ==
    LET square == Square(F, G, H)
        division_part == F + ISqrt(square)
    IN  IF square < 0 THEN NaN
        ELSE IF division_part = 0 THEN NaN
        ELSE Num(Quot(G, division_part))

\* the path length is an integer, or not a finite number
Exact(F, G, H) ==
    LET square == Square(F, G, H)
    IN  IF square < 0 THEN TRUE
        ELSE /\ ISqrt(square) * ISqrt(square) = square
             /\ IF F + ISqrt(square) = 0 THEN TRUE
                ELSE Divides(F + ISqrt(square), G)

\* r0 + rayDir * t
PointAt(r0, rayDir, t) ==
    IF t.fin THEN FinVec(VAdd(r0, Scale(rayDir, t.v))) ELSE NaNVec

ToGlobal(g, p) ==
    IF p.fin THEN FinVec(returnLocalToGlobalPoints(g, p.v)) ELSE NaNVec

Outcome(rb, raised, returned, t, converged, valid) ==
    [raybundle |-> rb,
     retval |-> [op |-> "intersect", raised |-> raised, returned |-> returned,
                 t |-> t, converged |-> converged, valid |-> valid]]

\* an attribute the object does not have: AttributeError, nothing appended
Raised(rb) == Outcome(rb, TRUE, "None", << >>, << >>, << >>)

\* Conic.intersect, lines 288-324
Conic_intersect(sh, g, rb) ==
    LET r0(i) == getLocalRayBundleForIntersect(g, rb, i).localo
        rayDir(i) == getLocalRayBundleForIntersect(g, rb, i).locald
        F(i) == Conic_F(sh.curv, sh.cc, r0(i), rayDir(i))
        G(i) == Conic_G(sh.curv, sh.cc, r0(i))
        H(i) == Conic_H(sh.curv, sh.cc, rayDir(i))
        t == [i \in RayIds |-> PathLength(F(i), G(i), H(i))]
        intersection(i) == PointAt(r0(i), rayDir(i), t[i])
        validIndices == [i \in RayIds |-> Square(F(i), G(i), H(i)) >= 0]
        globalinter == [i \in RayIds |-> ToGlobal(g, intersection(i))]
    IN  Outcome(append(rb, globalinter, Last(rb.k), Last(rb.Efield),
                       validIndices),
                FALSE, "None", t, validIndices, validIndices)

\* Cylinder.intersect, lines 366-387; line 381 reads raybundle.rayDir
Cylinder_intersect(sh, g, rb, hasRayDir) ==
    LET r0(i) == getLocalRayBundleForIntersect(g, rb, i).localo
        rayDir(i) == getLocalRayBundleForIntersect(g, rb, i).locald
        F(i) == Cylinder_F(sh.curv, sh.cc, r0(i), rayDir(i))
        G(i) == Cylinder_G(sh.curv, sh.cc, r0(i))
        H(i) == Conic_H(sh.curv, sh.cc, rayDir(i))
        t == [i \in RayIds |-> PathLength(F(i), G(i), H(i))]
        intersection(i) == PointAt(r0(i), returnKtoD(Last(rb.k)[i]), t[i])
        validIndices == [i \in RayIds |-> Square(F(i), G(i), H(i)) > 0]
        globalinter == [i \in RayIds |-> ToGlobal(g, intersection(i))]
    IN  IF ~hasRayDir THEN Raised(rb)
        ELSE Outcome(append(rb, globalinter, Last(rb.k), Last(rb.Efield),
                            validIndices),
                     FALSE, "None", t, validIndices, validIndices)

\* scipy.optimize.fsolve on a * t = b from the start value 0: the root when
\* there is one; otherwise the iteration stops where it got stuck and the
\* result is returned with a warning
fsolve(a, b, stuck) ==
    IF a # 0 THEN [converged |-> TRUE, t |-> Num(Quot(b, a))]
    ELSE IF b = 0 THEN [converged |-> TRUE, t |-> Num(0)]
    ELSE [converged |-> FALSE, t |-> Num(stuck)]

\* Fwrapper of lines 452-454 with F(x, y) = curv * x, and of lines 503-504
\* with F(x, y, z) = z - curv * x, is a * t - b
Fwrapper_a(sh, rayDir) == rayDir[3] - sh.curv * rayDir[1]
Fwrapper_b(sh, r0) == sh.curv * r0[1] - r0[3]

\* ExplicitShape.intersect, lines 447-464
ExplicitShape_intersect(sh, g, rb, stuck) ==
    LET r0(i) == getLocalRayBundleForIntersect(g, rb, i).localo
        rayDir(i) == getLocalRayBundleForIntersect(g, rb, i).locald
        sol(i) == fsolve(Fwrapper_a(sh, rayDir(i)), Fwrapper_b(sh, r0(i)), stuck)
        t == [i \in RayIds |-> sol(i).t]
        globalinter == [i \in RayIds |->
                           ToGlobal(g, PointAt(r0(i), rayDir(i), t[i]))]
        validIndices == [i \in RayIds |-> TRUE]
    IN  Outcome(append(rb, globalinter, Last(rb.k), Last(rb.Efield),
                       validIndices),
                FALSE, "None", t, [i \in RayIds |-> sol(i).converged],
                validIndices)

\* ImplicitShape.intersect, lines 495-516: reads raybundle.d, raybundle.o and
\* self.tol, and returns (intersection, t, normal, validIndices)
ImplicitShape_intersect(sh, g, rb, stuck, hasAttributes) ==
    LET r0(i) == Last(rb.x)[i].v
        rayDir(i) == returnKtoD(Last(rb.k)[i])
        sol(i) == fsolve(Fwrapper_a(sh, rayDir(i)), Fwrapper_b(sh, r0(i)), stuck)
        t == [i \in RayIds |-> sol(i).t]
        validIndices == [i \in RayIds |-> TRUE]
    IN  IF ~hasAttributes THEN Raised(rb)
        ELSE Outcome(rb, FALSE, "tuple", t,
                     [i \in RayIds |-> sol(i).converged], validIndices)

\* the path lengths of the call are integers or not finite
ExactInput(sh, g, rb) ==
    \A i \in RayIds :
        LET r0 == getLocalRayBundleForIntersect(g, rb, i).localo
            rayDir == getLocalRayBundleForIntersect(g, rb, i).locald
        IN  CASE sh.kind = "Conic" ->
                   Exact(Conic_F(sh.curv, sh.cc, r0, rayDir),
                         Conic_G(sh.curv, sh.cc, r0),
                         Conic_H(sh.curv, sh.cc, rayDir))
              [] sh.kind = "Cylinder" ->
                   Exact(Cylinder_F(sh.curv, sh.cc, r0, rayDir),
                         Cylinder_G(sh.curv, sh.cc, r0),
                         Conic_H(sh.curv, sh.cc, rayDir))
              [] sh.kind = "ExplicitShape" ->
                   IF Fwrapper_a(sh, rayDir) = 0 THEN TRUE
                   ELSE Divides(Fwrapper_a(sh, rayDir), Fwrapper_b(sh, r0))
              [] OTHER ->
                   IF Fwrapper_a(sh, returnKtoD(Last(rb.k)[i])) = 0 THEN TRUE
                   ELSE Divides(Fwrapper_a(sh, returnKtoD(Last(rb.k)[i])),
                                Fwrapper_b(sh, Last(rb.x)[i].v))

\* a bundle of NumRays rays as RayBundle(x0, k0, Efield0) constructs it
NewBundle(x0, k0) ==
    [x |-> << [i \in RayIds |-> FinVec(x0[i])] >>,
     k |-> << k0 >>,
     Efield |-> << [i \in RayIds |-> <<"E", i>>] >>,
     valid |-> << [i \in RayIds |-> TRUE] >>]

InitShape ==
    /\ lcparent = [lc \in AllFrames |-> IF lc = RootLC THEN NoParent ELSE RootLC]
    /\ lcname = [lc \in AllFrames |-> <<"lc", lc>>]
    /\ surfaces = EmptyMap
    /\ surf_mat_connection = EmptyMap
    /\ materials = EmptyMap
    /\ comment = [m \in MatObjs |-> ""]
    /\ regconn = [surf |-> EmptyMap, mat |-> EmptyMap]
    /\ ev = Event("init", None, None, None, FALSE, FALSE, FALSE)
    /\ IdleHit
    /\ IdleTrace
    /\ IdleCoord
    /\ shape \in ShapeInputs
    /\ raybundle \in {NewBundle(x0, k0) :
                         x0 \in [RayIds -> StartPoints],
                         k0 \in [RayIds -> WaveVectors]}
    /\ ExactInput(shape, lcglobal[ShapeLC], raybundle)
    /\ retval = NoCall
    /\ IdleXYUV
    /\ IdleExtra

\* where fsolve stops when there is no root
StuckAt == {0, 1}

ConicIntersect ==
    /\ shape.kind = "Conic"
    /\ retval = NoCall
    /\ LET r == Conic_intersect(shape, lcglobal[ShapeLC], raybundle)
       IN  raybundle' = r.raybundle /\ retval' = r.retval
    /\ UNCHANGED <<shape, elemvars, hitvars, tracevars, coordvars, xyuvvars,
                   extravars>>

CylinderIntersect ==
    /\ shape.kind = "Cylinder"
    /\ retval = NoCall
    /\ \E hasRayDir \in BOOLEAN :
           LET r == Cylinder_intersect(shape, lcglobal[ShapeLC], raybundle,
                                       hasRayDir)
           IN  raybundle' = r.raybundle /\ retval' = r.retval
    /\ UNCHANGED <<shape, elemvars, hitvars, tracevars, coordvars, xyuvvars,
                   extravars>>

ExplicitShapeIntersect ==
    /\ shape.kind = "ExplicitShape"
    /\ retval = NoCall
    /\ \E stuck \in StuckAt :
           LET r == ExplicitShape_intersect(shape, lcglobal[ShapeLC],
                                            raybundle, stuck)
           IN  raybundle' = r.raybundle /\ retval' = r.retval
    /\ UNCHANGED <<shape, elemvars, hitvars, tracevars, coordvars, xyuvvars,
                   extravars>>

ImplicitShapeIntersect ==
    /\ shape.kind = "ImplicitShape"
    /\ retval = NoCall
    /\ \E stuck \in StuckAt, hasAttributes \in BOOLEAN :
           LET r == ImplicitShape_intersect(shape, lcglobal[ShapeLC],
                                            raybundle, stuck, hasAttributes)
           IN  raybundle' = r.raybundle /\ retval' = r.retval
    /\ UNCHANGED <<shape, elemvars, hitvars, tracevars, coordvars, xyuvvars,
                   extravars>>

NextShape ==
    \/ ConicIntersect
    \/ CylinderIntersect
    \/ ExplicitShapeIntersect
    \/ ImplicitShapeIntersect

SpecShape == InitShape /\ [][NextShape]_vars

(***************************************************************************)
(* OpticalElement.calculateXYUV and para_seqtrace                          *)
(*                                                                         *)
(* The pilot RayPath of a sequence of k entries holds the bundles 1 .. k+1 *)
(* (no bundle of the pilot path is split).  A best-fit matrix is known by  *)
(* the two pilot bundles it was fitted to, in the order (start, end).      *)
(***************************************************************************)
\* bestfit_transfer(X, Y), lines 200-210, for X taken from pilot bundle
\* pb1 and Y from pilot bundle pb2
bestfit_transfer(pb1, pb2) == [start |-> pb1, end |-> pb2]

\* seqtrace of the pilot bundle, lines 247-251: one bundle per entry after
\* the initial one
pilot_seqtrace(seq) == [j \in 1 .. Len(seq) + 1 |-> j]

Min(a, b) == IF a < b THEN a ELSE b

\* the loop of lines 259-316 storing the forward matrix only
RECURSIVE XYUV_loop_forwardOnly(_, _, _)
XYUV_loop_forwardOnly(raybundles, hitlist, j) ==
    IF j = 0 THEN EmptyMap
    ELSE LET acc == XYUV_loop_forwardOnly(raybundles, hitlist, j - 1)
             surfhit == hitlist[j]
         IN  Put(acc, surfhit,
                 bestfit_transfer(raybundles[j], raybundles[j + 1]))

\* the loop of lines 259-316 after its first j iterations:
\* zip(raybundles[:-1], raybundles[1:], hitlist)
RECURSIVE XYUV_loop(_, _, _)
XYUV_loop(raybundles, hitlist, j) ==
    IF j = 0 THEN EmptyMap
    ELSE LET acc == XYUV_loop(raybundles, hitlist, j - 1)
             s1 == hitlist[j][1]
             s2 == hitlist[j][2]
             numhit == hitlist[j][3]
             pb1 == raybundles[j]
             pb2 == raybundles[j + 1]
             transfer == bestfit_transfer(pb1, pb2)
             invtransfer == bestfit_transfer(pb2, pb1)
         IN  Put(Put(acc, <<s1, s2, numhit>>, transfer),
                 <<s2, s1, numhit>>, invtransfer)

\* calculateXYUV, lines 245-322
calculateXYUV(seq) ==
    LET hitlist == sequence_to_hitlist(seq)[1]
        raybundles == pilot_seqtrace(seq)
    IN  [pilotraypath |-> raybundles,
         XYUVmatrices |-> XYUV_loop(raybundles, hitlist,
                                    Min(Len(raybundles) - 1, Len(hitlist)))]

\* RayBundle(x0, k0, ...): one state per ray, every ray valid
InputBundle == [valid |-> << [i \in RayIds |-> TRUE] >>, dest |-> None,
                matrix |-> None]

\* line 461 active: surf_end.intersect(newbundle) in place of the append
para_newbundle_intersect(blk, surf_end_key, matrix) ==
    [valid |-> << [i \in RayIds |-> TRUE],
                  [i \in RayIds |-> i \notin blk[surf_end_key]] >>,
     dest |-> surf_end_key, matrix |-> matrix]

\* lines 406-459: the new bundle and the one state appended to it
para_newbundle(blk, surf_end_key, matrix) ==
    [valid |-> << [i \in RayIds |-> TRUE], [i \in RayIds |-> TRUE] >>,
     dest |-> surf_end_key, matrix |-> matrix]

\* the loop of lines 397-467 after its first j iterations
RECURSIVE para_loop(_, _, _, _)
para_loop(matrices, hitlist, blk, j) ==
    IF j = 0 THEN << InputBundle >>
    ELSE Append(para_loop(matrices, hitlist, blk, j - 1),
                para_newbundle(blk, hitlist[j][2], matrices[hitlist[j]]))

\* para_seqtrace, lines 381-469
para_seqtrace(seq, blk) ==
    LET r == calculateXYUV(seq)
        hitlist == sequence_to_hitlist(seq)[1]
    IN  [pilotraypath |-> r.pilotraypath,
         matrices |-> r.XYUVmatrices,
         rpath |-> para_loop(r.XYUVmatrices, hitlist, blk,
                             Min(Len(r.pilotraypath) - 1, Len(hitlist)))]

\* sets of rays a surface's shape or aperture would reject
BlockedSets == {{}, {1}}

\* the rays go from a surface to another surface
Alternating(seq) == \A i \in 1 .. Len(seq) - 1 : seq[i][1] # seq[i + 1][1]

InitXYUV ==
    /\ lcparent = [lc \in AllFrames |-> IF lc = RootLC THEN NoParent ELSE RootLC]
    /\ lcname = [lc \in AllFrames |-> <<"lc", lc>>]
    /\ surfaces = [k \in SurfKeys |-> IF k = "A" THEN "S1" ELSE "S2"]
    /\ surf_mat_connection = [k \in SurfKeys |-> <<"m1", "m2">>]
    /\ materials = [k \in MatKeys |-> IF k = "m1" THEN "M1" ELSE "M2"]
    /\ comment = [m \in MatObjs |-> ""]
    /\ regconn = [surf |-> [k \in SurfKeys |-> TRUE],
                  mat |-> [k \in MatKeys |-> TRUE]]
    /\ ev = Event("init", None, None, None, FALSE, FALSE, FALSE)
    /\ sequence \in {seq \in SeqsUpTo(SurfKeys \X TraceOptions, MaxHitLen) :
                         Alternating(seq)}
    /\ hit = NoResult
    /\ hitseq = NoResult
    /\ IdleTrace
    /\ IdleCoord
    /\ IdleShape
    /\ IdleExtra
    /\ XYUVmatrices = EmptyMap
    /\ pilotraypath = << >>
    /\ rpath = << >>
    /\ blocked \in [SurfKeys -> BlockedSets]

CalculateXYUV ==
    /\ pilotraypath = << >>
    /\ LET r == calculateXYUV(sequence)
       IN  /\ XYUVmatrices' = r.XYUVmatrices
           /\ pilotraypath' = r.pilotraypath
    /\ UNCHANGED <<rpath, blocked, elemvars, hitvars, tracevars, coordvars,
                   shapevars, extravars>>

ParaSeqtrace ==
    /\ rpath = << >>
    /\ LET r == para_seqtrace(sequence, blocked)
       IN  /\ rpath' = r.rpath
           /\ pilotraypath' = r.pilotraypath
           /\ XYUVmatrices' = r.matrices
    /\ UNCHANGED <<blocked, elemvars, hitvars, tracevars, coordvars,
                   shapevars, extravars>>

NextXYUV ==
    \/ CalculateXYUV
    \/ ParaSeqtrace

SpecXYUV == InitXYUV /\ [][NextXYUV]_vars

(***************************************************************************)
(* Conic.getSag and Cylinder.getSag                                        *)
(***************************************************************************)
\* an element without frames below the root, surfaces or materials
IdleElem ==
    /\ lcparent = [lc \in AllFrames |-> NoParent]
    /\ lcname = [lc \in AllFrames |-> <<"lc", lc>>]
    /\ surfaces = EmptyMap
    /\ surf_mat_connection = EmptyMap
    /\ materials = EmptyMap
    /\ comment = [m \in MatObjs |-> ""]
    /\ regconn = [surf |-> EmptyMap, mat |-> EmptyMap]
    /\ ev = Event("init", None, None, None, FALSE, FALSE, FALSE)

\* plane, sphere, paraboloid and hyperboloid as (curv, cc)
SagShapes ==
    {[kind |-> kd, curv |-> p[1], cc |-> p[2]] :
        kd \in {"Conic", "Cylinder"},
        p \in {<<0, 0>>, <<1, 0>>, <<1, 0 - 1>>, <<1, 0 - 2>>}}

\* the coordinates of a batch: one (x, y) per ray
SagCoords == {0, 1, 2}
SagBatches == [RayIds -> SagCoords \X SagCoords]

\* line 213
sqrtterm(curv, cc, rsquared) == 1 - (1 + cc) * curv * curv * rsquared

\* the comparison of lines 214-215 made with < instead of <=
conic_function_strict(curv, cc, rsquared) ==
    [i \in DOMAIN rsquared |->
        LET st == sqrtterm(curv, cc, rsquared[i])
        IN  IF st < 0 THEN NaN
            ELSE Num(Quot(curv * rsquared[i], 1 + ISqrt(st)))]

\* Conic.conic_function, lines 207-218, on an array: where sqrtterm <= 0 the
\* entry of rsquared is set to nan and sqrtterm to 0, so z is nan there;
\* elsewhere z = curv * rsquared / (1 + sqrt(sqrtterm))
conic_function(curv, cc, rsquared) ==
    [i \in DOMAIN rsquared |->
        LET st == sqrtterm(curv, cc, rsquared[i])
        IN  IF st <= 0 THEN NaN
            ELSE Num(Quot(curv * rsquared[i], 1 + ISqrt(st)))]

\* Conic.getSag (lines 197-205) passes x**2 + y**2, Cylinder.getSag (lines
\* 356-364) passes y**2
rsquared_of(kind, xy) ==
    [i \in DOMAIN xy |->
        IF kind = "Cylinder" THEN xy[i][2] * xy[i][2]
        ELSE xy[i][1] * xy[i][1] + xy[i][2] * xy[i][2]]

getSag(sh, xy) == conic_function(sh.curv, sh.cc, rsquared_of(sh.kind, xy))

\* the sag of every coordinate of the batch is an integer, or not a number
ExactSag(sh, xy) ==
    \A i \in DOMAIN xy :
        LET r2 == rsquared_of(sh.kind, xy)[i]
            st == sqrtterm(sh.curv, sh.cc, r2)
        IN  IF st <= 0 THEN TRUE
            ELSE /\ ISqrt(st) * ISqrt(st) = st
                 /\ Divides(1 + ISqrt(st), sh.curv * r2)

InitSag ==
    /\ IdleElem
    /\ IdleHit
    /\ IdleTrace
    /\ IdleCoord
    /\ shape \in SagShapes
    /\ raybundle = NoBundle
    /\ retval = NoCall
    /\ IdleXYUV
    /\ sagcall \in {[op |-> "input", xy |-> b] : b \in SagBatches}
    /\ ExactSag(shape, sagcall.xy)
    /\ nearest = NoNearest
    /\ pds = NoPds
    /\ sa = NoSa

\* one call shape.getSag(x, y) on the batch
GetSag ==
    /\ sagcall.op = "input"
    /\ sagcall' = [op |-> "getSag", xy |-> sagcall.xy, raised |-> FALSE,
                   z |-> getSag(shape, sagcall.xy)]
    /\ UNCHANGED <<elemvars, hitvars, tracevars, coordvars, shapevars,
                   xyuvvars, nearest, pds, sa>>

NextSag == GetSag

SpecSag == InitSag /\ [][NextSag]_vars

(***************************************************************************)
(* helpers.choose_nearest                                                  *)
(***************************************************************************)
\* shape of the arrays: kvec is 3 x KvecLen, kvecs_new is
\* KvecNewNo x 3 x KvecLen
KvecLen == 2
KvecNewNo == 3
KvecCols == 1 .. KvecLen

\* complex numbers as (real part, imaginary part)
Re(z) == z[1]
Im(z) == z[2]
CSub(a, b) == <<Re(a) - Re(b), Im(a) - Im(b)>>
AbsSquare(z) == Re(z) * Re(z) + Im(z) * Im(z)

\* the wave-vectors the arrays are filled with: two real ones and one with
\* an imaginary component
KVectors ==
    {<< <<0, 0>>, <<0, 0>>, <<1, 0>> >>,
     << <<0, 0>>, <<0, 0>>, <<2, 0>> >>,
     << <<0, 1>>, <<0, 0>>, <<1, 0>> >>}
ZeroVector == << <<0, 0>>, <<0, 0>>, <<0, 0>> >>

\* np.dot(np.conj(vdiff), vdiff) for vdiff = a - b (lines 66-67)
hermite_abs_square(a, b) ==
    AbsSquare(CSub(a[1], b[1])) + AbsSquare(CSub(a[2], b[2]))
    + AbsSquare(CSub(a[3], b[3]))

\* hermite_abs_square > tol with tol = 1e-3 (lines 55 and 68), on integers
AboveTol(d) == d > 0

\* diff_comparison = 1e10 (line 63) is larger than every distance here
NoComparison == 0 - 1
Below(d, diff_comparison) ==
    IF diff_comparison = NoComparison THEN TRUE ELSE d < diff_comparison

\* the inner loop of lines 63-70 over the candidates 1 .. i of column j;
\* choosing_index 1 is the index 0 of the code
RECURSIVE nearest_loop(_, _, _, _)
nearest_loop(kv, kvn, j, i) ==
    IF i = 0
    THEN [choosing_index |-> 1, diff_comparison |-> NoComparison]
    ELSE LET acc == nearest_loop(kv, kvn, j, i - 1)
             d == hermite_abs_square(kvn[i][j], kv[j])
         IN  IF Below(d, acc.diff_comparison) /\ AboveTol(d)
             THEN [choosing_index |-> i, diff_comparison |-> d]
             ELSE acc

\* choose_nearest(kvec, kvecs_new), lines 45-75: res is zeros_like(kvec) and
\* is filled column by column when the shapes agree
choose_nearest(kv, kvn) ==
    IF \A i \in DOMAIN kvn : Len(kvn[i]) = Len(kv)
    THEN [j \in DOMAIN kv |->
             kvn[nearest_loop(kv, kvn, j, Len(kvn)).choosing_index][j]]
    ELSE [j \in DOMAIN kv |-> ZeroVector]

InitNearest ==
    /\ IdleElem
    /\ IdleHit
    /\ IdleTrace
    /\ IdleCoord
    /\ IdleShape
    /\ IdleXYUV
    /\ sagcall = NoSag
    /\ nearest \in {[op |-> "input", kvec |-> kv, kvecs_new |-> kvn] :
                       kv \in [KvecCols -> KVectors],
                       kvn \in [1 .. KvecNewNo -> [KvecCols -> KVectors]]}
    /\ pds = NoPds
    /\ sa = NoSa

ChooseNearest ==
    /\ nearest.op = "input"
    /\ nearest' = [op |-> "choose_nearest", kvec |-> nearest.kvec,
                   kvecs_new |-> nearest.kvecs_new,
                   res |-> choose_nearest(nearest.kvec, nearest.kvecs_new)]
    /\ UNCHANGED <<elemvars, hitvars, tracevars, coordvars, shapevars,
                   xyuvvars, sagcall, pds, sa>>

NextNearest == ChooseNearest

SpecNearest == InitNearest /\ [][NextNearest]_vars

(***************************************************************************)
(* SimulatedAnnealingBackend.run                                           *)
(***************************************************************************)
\* options "Nt" (steps per temperature) and the length of the list "Tt"
Nt == 2
NumTemps == 2

\* the points of the search space and the values of the merit function
SaPoints == 0 .. 3
MeritValues == 0 .. 2
MeritFunctions == [SaPoints -> MeritValues]

\* choose_neighbour (lines 224-228): x + neighbourhood * (1 - 2 * random)
Neighbours(p) == {q \in SaPoints : q - p \in {0 - 1, 0, 1}}

\* the best point replaced by the current one whatever its merit
best_so_far_current(f, xnew, xapp) == xnew

\* lines 248-249: xapprox is replaced when the current point is better
best_so_far(f, xnew, xapp) == IF f[xnew] < f[xapp] THEN xnew ELSE xapp

\* lines 239-247: a point that is not worse is taken; a worse one is taken
\* when the random number is below exp(-(yfunc - xfunc)/temperature)
accepts(f, xcur, y, lucky) == IF f[y] <= f[xcur] THEN TRUE ELSE lucky

InitSa ==
    /\ IdleElem
    /\ IdleHit
    /\ IdleTrace
    /\ IdleCoord
    /\ IdleShape
    /\ IdleXYUV
    /\ sagcall = NoSag
    /\ nearest = NoNearest
    /\ pds = NoPds
    /\ sa \in {[op |-> "input", func |-> f, x0 |-> p] :
                  f \in MeritFunctions, p \in SaPoints}

\* lines 230-231: xapprox = np.copy(x0), x = np.copy(x0)
SaRun ==
    /\ sa.op = "input"
    /\ sa' = [op |-> "loop", func |-> sa.func, x0 |-> sa.x0, x |-> sa.x0,
              xapprox |-> sa.x0, temperature |-> 1, step |-> 1,
              accepted |-> {}]
    /\ UNCHANGED <<elemvars, hitvars, tracevars, coordvars, shapevars,
                   xyuvvars, sagcall, nearest, pds>>

\* lines 235-251: one pass of the body of the inner loop
SaStep ==
    /\ sa.op = "loop"
    /\ sa.temperature <= NumTemps
    /\ \E y \in Neighbours(sa.x), lucky \in BOOLEAN :
           LET taken == accepts(sa.func, sa.x, y, lucky)
               xnew == IF taken THEN y ELSE sa.x
           IN  sa' = [sa EXCEPT
                         !.x = xnew,
                         !.xapprox = best_so_far(sa.func, xnew, sa.xapprox),
                         !.accepted = IF taken THEN @ \cup {y} ELSE @,
                         !.step = IF sa.step = Nt THEN 1 ELSE @ + 1,
                         !.temperature = IF sa.step = Nt THEN @ + 1 ELSE @]
    /\ UNCHANGED <<elemvars, hitvars, tracevars, coordvars, shapevars,
                   xyuvvars, sagcall, nearest, pds>>

\* line 253: return xapprox
SaReturn ==
    /\ sa.op = "loop"
    /\ sa.temperature > NumTemps
    /\ sa' = [op |-> "returned", func |-> sa.func, x0 |-> sa.x0,
              accepted |-> sa.accepted, result |-> sa.xapprox]
    /\ UNCHANGED <<elemvars, hitvars, tracevars, coordvars, shapevars,
                   xyuvvars, sagcall, nearest, pds>>

NextSa ==
    \/ SaRun
    \/ SaStep
    \/ SaReturn

SpecSa == InitSa /\ [][NextSa]_vars

(***************************************************************************)
(* sampling2d.pds.Poisson2D                                                *)
(***************************************************************************)
\* Poisson2D(w, h, r, k): coordinates are counted in units of
\* gridcellsize / GridCell, so that gridcellsize = r / sqrt(2) (line 68) is
\* GridCell units and r * r is 2 * GridCell * GridCell
Width == 6
Height == 5
GridCell == 3
RadiusSquared == 2 * GridCell * GridCell
NumTries == 2

\* lines 83-84
maxgx == (Width \div GridCell) + 1
maxgy == (Height \div GridCell) + 1
GridPoints == (0 .. maxgx - 1) \X (0 .. maxgy - 1)
EmptyCell == 0 - 1

\* the points random points are drawn from: the rectangle, and one point
\* for those that fall outside of it
Outside == <<0 - 1, 0 - 1>>
Lattice == ((0 .. Width) \X (0 .. Height)) \cup {Outside}

\* the first sample, (random * w, random * h)
FirstSamples == {<<0, 0>>, <<2, 0>>, <<3, 3>>}

DistSquared(p, q) ==
    (p[1] - q[1]) * (p[1] - q[1]) + (p[2] - q[2]) * (p[2] - q[2])

\* lines 117-124: int(x / gridcellsize), for coordinates that are not
\* negative
XYtoG(tp) == <<tp[1] \div GridCell, tp[2] \div GridCell>>

\* lines 128-132
checkgps ==
    {<<0 - 2, 1>>, <<0 - 2, 0>>, <<0 - 2, 0 - 1>>,
     <<0 - 1, 0 - 2>>, <<0 - 1, 0 - 1>>, <<0 - 1, 0>>, <<0 - 1, 1>>, <<0 - 1, 2>>,
     <<0, 0 - 2>>, <<0, 0 - 1>>, <<0, 0>>, <<0, 1>>, <<0, 2>>,
     <<1, 0 - 2>>, <<1, 0 - 1>>, <<1, 0>>, <<1, 1>>, <<1, 2>>,
     <<2, 1>>, <<2, 0>>, <<2, 0 - 1>>}

\* only the cell itself and the eight cells around it
checkNearbyGridPoints_adjacent(gp) ==
    {e \in GridPoints : e[1] - gp[1] \in {0 - 1, 0, 1}
                        /\ e[2] - gp[2] \in {0 - 1, 0, 1}}

\* lines 126-137: the cells at the offsets of checkgps that lie in the grid
checkNearbyGridPoints(gp) ==
    {e \in GridPoints : <<e[1] - gp[1], e[2] - gp[2]>> \in checkgps}

\* lines 186-200
checkPointsNearby(p, pt) ==
    LET checkgridpoints == checkNearbyGridPoints(XYtoG(pt))
        allvalidindices == {p.grid[e] : e \in checkgridpoints} \ {EmptyCell}
    IN  \E ind \in allvalidindices :
            DistSquared(pt, p.samplelist[ind]) < RadiusSquared

\* lines 95-105; the index is the position in samplelist
addsample(p, sample) ==
    LET index == Len(p.samplelist) + 1
    IN  [p EXCEPT !.grid[XYtoG(sample)] = index,
                  !.activelist = Append(@, index),
                  !.samplelist = Append(@, sample)]

\* line 213
isInRect(pt) ==
    pt[1] >= 0 /\ pt[1] <= Width /\ pt[2] >= 0 /\ pt[2] <= Height

\* lines 153-164 and 205-207: points around refpoint at a distance from r
\* up to, not including, 2 r
chooseNewpointAroundRefpoint(refpoint) ==
    {q \in Lattice : \/ q = Outside
                     \/ /\ DistSquared(q, refpoint) >= RadiusSquared
                        /\ DistSquared(q, refpoint) < 4 * RadiusSquared}

\* lines 222-226: the loop over the new points, from point i on
RECURSIVE onestep_loop(_, _, _)
onestep_loop(p, newpoints, i) ==
    IF i > Len(newpoints) THEN p
    ELSE LET newpoint == newpoints[i]
         IN  onestep_loop(IF isInRect(newpoint) /\ ~checkPointsNearby(p, newpoint)
                          THEN addsample(p, newpoint)
                          ELSE p,
                          newpoints, i + 1)

\* lines 219-220: the active entry refind is removed
removeActive(activelist, refind) ==
    [i \in 1 .. Len(activelist) - 1 |->
        IF i < refind THEN activelist[i] ELSE activelist[i + 1]]

\* Poisson2D(w, h, r, k), lines 54-75
InitPds ==
    /\ IdleElem
    /\ IdleHit
    /\ IdleTrace
    /\ IdleCoord
    /\ IdleShape
    /\ IdleXYUV
    /\ sagcall = NoSag
    /\ nearest = NoNearest
    /\ pds = [op |-> "init", activelist |-> << >>, samplelist |-> << >>,
              grid |-> [e \in GridPoints |-> EmptyCell]]
    /\ sa = NoSa

\* initialize, lines 87-93: createGrid and a first sample at
\* (random * w, random * h)
PdsInitialize ==
    /\ pds.op = "init"
    /\ \E sample \in FirstSamples :
           pds' = addsample([pds EXCEPT !.op = "sampling"], sample)
    /\ UNCHANGED <<elemvars, hitvars, tracevars, coordvars, shapevars,
                   xyuvvars, sagcall, nearest, sa>>

\* onestep, lines 217-226, with a non-empty active list
PdsOneStep ==
    /\ pds.op = "sampling"
    /\ pds.activelist # << >>
    /\ \E refind \in 1 .. Len(pds.activelist) :
           LET refpoint == pds.samplelist[pds.activelist[refind]]
               around == chooseNewpointAroundRefpoint(refpoint)
           IN  \E newpoints \in [1 .. NumTries -> around] :
                   pds' = onestep_loop(
                              [pds EXCEPT !.activelist = removeActive(@, refind)],
                              newpoints, 1)
    /\ UNCHANGED <<elemvars, hitvars, tracevars, coordvars, shapevars,
                   xyuvvars, sagcall, nearest, sa>>

NextPds ==
    \/ PdsInitialize
    \/ PdsOneStep

SpecPds == InitPds /\ [][NextPds]_vars

(***************************************************************************)
(* Properties of registration (checked under SpecElem)                     *)
(***************************************************************************)
\* C1: addSurface with a surface whose frame is not connected to the root
\* raises, and leaves the surfaces map and the surface-to-material-pair map
\* exactly as they were before the call.
C1_UnconnectedSurfaceRaises ==
    [][(ev'.op = "addSurface"
        /\ SurfLC(ev'.obj) \notin returnConnectedChildren(lcparent))
       => (/\ ev'.raised
           /\ surfaces' = surfaces
           /\ surf_mat_connection' = surf_mat_connection)]_vars

C1_Witness ==
    /\ ev.op = "addSurface"
    /\ ev.raised
    /\ SurfLC(ev.obj) \notin returnConnectedChildren(lcparent)
    /\ ev.key \notin DOMAIN surfaces

\* C2: whatever addSurface / addMaterial calls were made, successful or
\* failing, every Surface in the surfaces map and every Material in the
\* materials map had its frame connected to the root when it was stored.
C2_RegisteredWereConnected ==
    /\ \A k \in DOMAIN surfaces : k \in DOMAIN regconn.surf /\ regconn.surf[k]
    /\ \A k \in DOMAIN materials : k \in DOMAIN regconn.mat /\ regconn.mat[k]

C2_Witness ==
    /\ ev.raised
    /\ DOMAIN surfaces = SurfKeys
    /\ DOMAIN materials = MatKeys

C4_SurfaceKeptOnReRegistration ==
    [][(ev'.op = "addSurface" /\ ev'.key \in DOMAIN surfaces)
       => surfaces'[ev'.key] = surfaces[ev'.key]]_vars

\* C4 amended: addSurface on an already registered key with a connected
\* surface stores the Surface object passed under that key and replaces the
\* material pair, other keys being left alone; changeMaterialsForSurface on a
\* registered key replaces the material pair only.
C4_ReRegistrationReplacesSurface ==
    [][/\ (ev'.op = "addSurface" /\ ev'.key \in DOMAIN surfaces /\ ~ev'.raised)
          => (/\ surfaces' = [surfaces EXCEPT ![ev'.key] = ev'.obj]
              /\ surf_mat_connection' =
                     [surf_mat_connection EXCEPT ![ev'.key] = ev'.pair])
       /\ (ev'.op = "changeMaterialsForSurface"
           /\ ev'.key \in DOMAIN surf_mat_connection)
          => (/\ surfaces' = surfaces
              /\ surf_mat_connection' =
                     [surf_mat_connection EXCEPT ![ev'.key] = ev'.pair])]_vars

C4_Witness ==
    /\ ev.op = "addSurface"
    /\ ev.existed
    /\ ~ev.raised
    /\ surfaces[ev.key] = ev.obj
    /\ surf_mat_connection[ev.key] = ev.pair

(***************************************************************************)
(* Properties of sequence_to_hitlist (checked under SpecHit)               *)
(***************************************************************************)
SeqKey(i) == sequence[i][1]

\* number of times the ordered pair of transition i occurs among the first
\* i transitions of the sequence
Occurrence(i) ==
    Cardinality({j \in 1 .. i :
                    SeqKey(j) = SeqKey(i) /\ SeqKey(j + 1) = SeqKey(i + 1)})

\* C5: for a sequence of n >= 2 entries the hit list has n-1 entries, the
\* i-th being (key_i, key_i+1, m) with m the number of occurrences of that
\* ordered pair among the first i transitions; (B,A) is counted apart from
\* (A,B), so A,B,A gives (A,B,1), (B,A,1); the entries are pairwise distinct.
C5_HitlistCountsOrderedPairs ==
    (hit # NoResult /\ Len(sequence) >= 2) =>
        LET hitlist == hit[1]
        IN  /\ Len(hitlist) = Len(sequence) - 1
            /\ \A i \in 1 .. Len(hitlist) :
                   hitlist[i] = <<SeqKey(i), SeqKey(i + 1), Occurrence(i)>>
            /\ \A i, j \in 1 .. Len(hitlist) : i # j => hitlist[i] # hitlist[j]
            /\ (Len(sequence) = 3 /\ SeqKey(1) = "A" /\ SeqKey(2) = "B"
                /\ SeqKey(3) = "A")
               => hitlist = << <<"A", "B", 1>>, <<"B", "A", 1>> >>

C5_Witness ==
    /\ hit # NoResult
    /\ Len(sequence) = 4
    /\ hit[1] = << <<"A", "B", 1>>, <<"B", "A", 1>>, <<"A", "B", 2>> >>

(***************************************************************************)
(* Properties of seqtrace (checked under SpecTrace)                        *)
(***************************************************************************)
LastOf(pths, p) == pths[p][Len(pths[p])]
ContentOf(pths, hp, p) == [i \in 1 .. Len(pths[p]) |-> hp[pths[p][i]]]
LastBundle(p) == LastOf(paths, p)
Lineage(p) == heap[LastBundle(p)].lin
Range(f) == {f[x] : x \in DOMAIN f}
SplitCalls == {c \in 1 .. Len(calls) : calls[c].n = 2}
\* the RayPath objects in use: rpaths_new is live during the deflection loop
ActivePaths == IF pc = "deflect" THEN rpaths \o rpaths_new ELSE rpaths

C8_NoSharedObjects ==
    \A i, j \in 1 .. Len(ActivePaths) :
        i # j => /\ ActivePaths[i] # ActivePaths[j]
                 /\ Range(paths[ActivePaths[i]])
                        \cap Range(paths[ActivePaths[j]]) = {}

\* C8, step part: a branch created by a deflection is a new object holding
\* the content its parent had immediately before the step, extended by one
\* of the new bundles; and no step changes the content of a path other than
\* the one it propagates or appends to.
C8_BranchStep ==
    /\ (pc = "deflect" /\ pc' = "deflect") =>
          \A k \in Len(rpaths_new) + 1 .. Len(rpaths_new') :
              LET q == rpaths_new'[k]
                  rb == LastOf(paths', q)
              IN  /\ q \notin DOMAIN paths
                  /\ rb \notin DOMAIN heap
                  /\ heap'[rb].lin[entry] >= 1
                  /\ ContentOf(paths', heap', q)
                         = Append(PathContent(rpaths[ip]), heap'[rb])
    /\ \A i \in 1 .. Len(ActivePaths) :
          LET p == ActivePaths[i]
          IN  \/ /\ pc \in {"propagate", "deflect"}
                 /\ i = ip
              \/ PathContent(p)' = PathContent(p)

\* C8: a branch path is a deep copy of its parent as it was immediately
\* before the deflection result of the step was appended, extended by the
\* additional bundle; afterwards the two share no mutable state, so that
\* appending to or propagating one never changes the bundles of the other.
C8_BranchIsDeepCopy == [](C8_NoSharedObjects) /\ [][C8_BranchStep]_vars

C8_Witness ==
    /\ pc = "propagate"
    /\ entry = 2
    /\ ip = 3
    /\ Len(rpaths) = 2
    /\ Len(heap[LastBundle(rpaths[1])].hist) = 1
    /\ Len(heap[LastBundle(rpaths[2])].hist) = 1
    /\ paths[rpaths[1]][1] # paths[rpaths[2]][1]
    /\ PathContent(rpaths[1])[1] = PathContent(rpaths[2])[1]

IsSwitchStep == pc = "propagate" /\ pc' = "deflect"

\* C9 as stated: at every non-mirror entry the material after crossing is
\* one of the two bound materials and is not the current material object.
C9_NewMaterialIsNotCurrent ==
    [][(IsSwitchStep /\ refract_flag)
       => (/\ current_material' \in {mnmat, pnmat}
           /\ current_material' # current_material)]_vars

\* C9 amended: at every non-mirror entry the material after crossing is one
\* of the two bound materials; it is not the current material object
\* whenever at least one of the two is not that object (objects with equal
\* parameter values count as different), and it is the current material
\* when both bound materials are the current material object.
C9_NewMaterialByIdentity ==
    [][(IsSwitchStep /\ refract_flag)
       => (/\ current_material' \in {mnmat, pnmat}
           /\ (mnmat # current_material \/ pnmat # current_material)
              => current_material' # current_material
           /\ (mnmat = current_material /\ pnmat = current_material)
              => current_material' = current_material)]_vars

C9_Witness ==
    /\ pc = "deflect"
    /\ entry = 2
    /\ refract_flag
    /\ calls[Len(calls)].mat = "M2"
    /\ calls[Len(calls)].op = "refract"
    /\ mnmat = "M1"
    /\ pnmat = "M2"
    /\ current_material = "M1"
    /\ MatValue("M1") = MatValue("M2")

\* index in rpaths of the path a branch was copied from, and the position
\* of a branch in the order (parent path, returned-bundle index)
Front(sq) == SubSeq(sq, 1, Len(sq) - 1)
ParentIndex(q) ==
    CHOOSE i \in 1 .. Len(rpaths) :
        Front(Lineage(rpaths[i])) = Front(Lineage(q))
BranchBefore(q1, q2) ==
    \/ ParentIndex(q1) < ParentIndex(q2)
    \/ /\ ParentIndex(q1) = ParentIndex(q2)
       /\ Lineage(q1)[entry] < Lineage(q2)[entry]

C10_SeedFirst ==
    pc # "idle" => /\ rpaths[1] = 1
                   /\ paths[rpaths[1]][1] = 1

C10_OrderStep ==
    pc # "idle" =>
        /\ Len(rpaths') >= Len(rpaths)
        /\ \A i \in 1 .. Len(rpaths) : rpaths'[i] = rpaths[i]
        /\ \A a, b \in Len(rpaths) + 1 .. Len(rpaths') :
               a < b => BranchBefore(rpaths'[a], rpaths'[b])

\* C10: the returned list keeps production order: the path seeded with the
\* input bundle is at index 0, a path keeps its index when an entry is
\* processed, and the branches of an entry come after all paths that
\* existed before, ordered by parent path and then by returned-bundle index.
C10_ProductionOrder == [](C10_SeedFirst) /\ [][C10_OrderStep]_vars

C10_Witness ==
    /\ pc = "done"
    /\ Len(rpaths) = 4
    /\ Len(calls) = 3
    /\ \A c \in 1 .. 3 : calls[c].n = 2
    /\ Lineage(rpaths[3]) = <<0, 1>>
    /\ Lineage(rpaths[4]) = <<1, 1>>

\* ---------------------------------------------------------------------
\* C11

AllKeysRegistered ==
    \A i \in 1 .. Len(sequence) :
        /\ sequence[i][1] \in DOMAIN surfaces
        /\ sequence[i][1] \in DOMAIN surf_mat_connection

\* C11 as stated: whatever the sequence, seqtrace has no error outcome.
C11_NeverRaises == pc # "raised"

\* C11 (amended): seqtrace raises exactly at an entry whose surface key is
\* not registered in the element; for a sequence whose keys are all
\* registered every step of the loop can be taken until seqtrace returns,
\* and what it returns is a non-empty list of RayPaths.
C11_CompletesOnRegisteredKeys ==
    /\ pc = "raised" =>
           /\ entry \in 1 .. Len(sequence)
           /\ ~(/\ sequence[entry][1] \in DOMAIN surfaces
                /\ sequence[entry][1] \in DOMAIN surf_mat_connection)
    /\ AllKeysRegistered =>
           /\ pc # "raised"
           /\ pc # "done" => ENABLED NextTrace
           /\ pc = "done" => /\ Len(rpaths) >= 1
                             /\ \A i \in 1 .. Len(rpaths) :
                                    rpaths[i] \in 1 .. Len(paths)

C11_Witness ==
    /\ pc = "done"
    /\ Len(sequence) = MaxSeqLen
    /\ AllKeysRegistered
    /\ Len(rpaths) >= 2

\* ---------------------------------------------------------------------
\* C20

IsDeflectStep == pc = "deflect" /\ Len(calls') = Len(calls) + 1

\* the material the bundle of the path being deflected was propagated in
MaterialBefore == heap[LastBundle(rpaths[ip])].hist[1][1]

\* C20: at an entry with is_mirror true the current material is left as it
\* is and every path is deflected with reflect of that material; at any
\* other entry every path is deflected with refract of the material on the
\* other side of the surface.
C20_MirrorReflectsElseRefracts ==
    [][/\ (IsSwitchStep /\ ~refract_flag)
              => current_material' = current_material
       /\ IsDeflectStep
              => LET c == calls'[Len(calls')]
                 IN  IF Get(surfoptions, "is_mirror", FALSE)
                     THEN /\ c.op = "reflect"
                          /\ c.mat = MaterialBefore
                     ELSE /\ c.op = "refract"
                          /\ c.mat = IF mnmat = MaterialBefore
                                     THEN pnmat ELSE mnmat]_vars

C20_Witness ==
    /\ pc = "done"
    /\ \E c \in 1 .. Len(calls) :
           /\ calls[c].op = "reflect"
           /\ calls[c].mat # Background
    /\ \E c \in 1 .. Len(calls) : calls[c].op = "refract"

\* ---------------------------------------------------------------------
\* C16

IsAttachStep == ev'.op = "addLocalCoordinateSystem"

\* C16: addLocalCoordinateSystem(lc, refname) makes lc a child of the
\* connected frame named refname, and a child of the root when no connected
\* frame has that name; in both cases lc is connected to the root when the
\* call returns and every frame of the tree has the transform of the new
\* tree cached.
C16_AttachOrFallBackToRoot ==
    [][IsAttachStep =>
         LET lc == ev'.lc
             refname == ev'.refname
             conn == returnConnectedChildren(lcparent)
         IN  /\ IF \E f \in conn : lcname[f] = refname
                THEN /\ lcparent'[lc] \in conn
                     /\ lcname[lcparent'[lc]] = refname
                ELSE lcparent'[lc] = RootLC
             /\ checkForRootConnection(lcparent', lc)
             /\ \A f \in returnConnectedChildren(lcparent') :
                    lcglobal'[f] =
                        GlobalTransform(lcparent', lclocal', f, NumFrames + 1)]_vars

\* a frame attached under the name of a frame outside the tree hangs below
\* the root, with its transform to the root cached
C16_Witness ==
    /\ ev.op = "addLocalCoordinateSystem"
    /\ ev.refname # lcname[RootLC]
    /\ lcparent[ev.lc] = RootLC
    /\ lcglobal[ev.lc] # LocalTransform(lclocal[ev.lc])
    /\ \E f \in Frames : f # ev.lc /\ lcparent[f] = RootLC

\* ---------------------------------------------------------------------
\* C17

C13_AppendsOneEntry ==
    retval.op = "intersect"
        => /\ ~retval.raised
           /\ Len(raybundle.x) = 2
           /\ Len(raybundle.k) = 2
           /\ Len(raybundle.Efield) = 2
           /\ Len(raybundle.valid) = 2
           /\ raybundle.k[2] = raybundle.k[1]
           /\ raybundle.Efield[2] = raybundle.Efield[1]
           /\ DOMAIN raybundle.valid[2] = RayIds
           /\ DOMAIN raybundle.x[2] = RayIds

\* ---------------------------------------------------------------------
\* C14

LocalStart(i) == returnGlobalToLocalPoints(lcglobal[ShapeLC], raybundle.x[1][i].v)
LocalDir(i) == returnGlobalToLocalDirections(lcglobal[ShapeLC], raybundle.k[1][i])
AlongPlusZ(i) == LocalDir(i)[1] = 0 /\ LocalDir(i)[2] = 0 /\ LocalDir(i)[3] > 0

\* C14: on a Conic with curvature 0, a ray whose local direction is along
\* +z gets the path length t with t * direction.z = -origin.z, its new
\* position has local z = 0, and it is marked valid.
C14_FlatConicIsPlane ==
    (retval.op = "intersect" /\ shape.kind = "Conic" /\ shape.curv = 0)
        => \A i \in RayIds :
               AlongPlusZ(i)
                   => /\ retval.t[i].fin
                      /\ retval.t[i].v * LocalDir(i)[3] = 0 - LocalStart(i)[3]
                      /\ raybundle.x[2][i].fin
                      /\ returnGlobalToLocalPoints(lcglobal[ShapeLC],
                                                   raybundle.x[2][i].v)[3] = 0
                      /\ raybundle.valid[2][i]

C14_Witness ==
    /\ retval.op = "intersect"
    /\ shape.kind = "Conic"
    /\ shape.curv = 0
    /\ \A i \in RayIds : AlongPlusZ(i)
    /\ LocalStart(1)[3] # LocalStart(2)[3]
    /\ retval.t[1].v = 0 - LocalStart(1)[3]
    /\ retval.t[1].v > 0

\* ---------------------------------------------------------------------
\* C15

\* C15: in the FreeShape family no exception is raised by intersect, and a
\* ray for which the root-finder did not converge is marked invalid.
C15_NoRootIsInvalid ==
    (retval.op = "intersect" /\ shape.kind \in {"ExplicitShape", "ImplicitShape"})
        => /\ ~retval.raised
           /\ \A i \in RayIds : ~retval.converged[i] => ~retval.valid[i]

\* ---------------------------------------------------------------------
\* C18

\* C18: after calculateXYUV, the matrix stored under every hit of the hit
\* list of the sequence is the forward matrix fitted to the two pilot
\* bundles of that occurrence of the transition.
C18_ForwardMatrixPerOccurrence ==
    pilotraypath # << >>
        => LET hitlist == sequence_to_hitlist(sequence)[1]
           IN  \A j \in 1 .. Len(hitlist) :
                   /\ hitlist[j] \in DOMAIN XYUVmatrices
                   /\ XYUVmatrices[hitlist[j]] =
                          bestfit_transfer(pilotraypath[j], pilotraypath[j + 1])

\* ---------------------------------------------------------------------
\* C19

\* C19: every bundle para_seqtrace appends to the path of the real rays
\* has its appended state marked valid for every ray, also when the
\* destination surface would not accept the ray.
C19_ParaxialStatesAllValid ==
    \A b \in 2 .. Len(rpath) :
        /\ Len(rpath[b].valid) = 2
        /\ \A i \in RayIds : rpath[b].valid[2][i]

C19_Witness ==
    /\ Len(rpath) = MaxHitLen
    /\ \E b \in 2 .. Len(rpath) : blocked[rpath[b].dest] # {}
    /\ \E b \in 2 .. Len(rpath) : blocked[rpath[b].dest] = {}

\* ---------------------------------------------------------------------
\* C21

IsPropagateStep == pc = "propagate" /\ pc' = "propagate" /\ ip' = ip + 1

\* the material the bundle was created in: the background medium for the
\* bundle handed to seqtrace, else the material whose refract / reflect
\* returned it
MaterialInForce(b) == IF heap[b].op = "seed" THEN Background ELSE heap[b].mat

\* every path in rpaths has had its bundle of this entry propagated
AllPropagated ==
    \A i \in 1 .. Len(rpaths) :
        LET b == paths[rpaths[i]][entry]
        IN  /\ Len(heap[b].hist) = 1
            /\ heap[b].hist[1][2] = current_surface

\* C21: at every entry the last bundle of a path is propagated to the
\* surface of the entry by the material in force before the crossing; the
\* material is switched only when every path has been propagated, and a
\* path is deflected only after that.
C21_PropagateSwitchDeflect ==
    [][/\ IsPropagateStep
              => LET b == LastBundle(rpaths[ip])
                 IN  /\ heap[b].hist = << >>
                     /\ heap'[b].hist =
                            << <<MaterialInForce(b), current_surface>> >>
                     /\ current_material' = current_material
                     /\ Len(calls') = Len(calls)
       /\ IsSwitchStep => AllPropagated
       /\ IsDeflectStep
              => /\ AllPropagated
                 /\ \A c \in 1 .. Len(calls) :
                        calls[c].entry = entry => calls[c].rp < ip]_vars

C21_Witness ==
    /\ pc = "deflect"
    /\ entry = MaxSeqLen
    /\ Len(rpaths) >= 2
    /\ ip = 2
    /\ AllPropagated
    /\ current_material # Background

\* ---------------------------------------------------------------------
\* C26

NumBundles(rp) == Len(paths[rp])

\* C26: between two entries, and when seqtrace returns, every active
\* RayPath holds one bundle more than the number of entries processed;
\* inside the deflection loop the paths already visited and the branches
\* made at this entry hold one bundle more than the paths still to visit,
\* and no branch is a member of the list the loop runs over.
C26_OneBundlePerEntry ==
    /\ pc \in {"entry", "propagate", "done"}
           => \A i \in 1 .. Len(rpaths) : NumBundles(rpaths[i]) = entry
    /\ pc = "deflect"
           => /\ \A i \in 1 .. Len(rpaths) :
                     NumBundles(rpaths[i]) = IF i < ip THEN entry + 1 ELSE entry
              /\ \A j \in 1 .. Len(rpaths_new) :
                     /\ NumBundles(rpaths_new[j]) = entry + 1
                     /\ \A i \in 1 .. Len(rpaths) : rpaths[i] # rpaths_new[j]
              /\ \A c, d \in 1 .. Len(calls) :
                     (calls[c].entry = entry /\ calls[d].entry = entry /\ c # d)
                         => calls[c].rp # calls[d].rp

C26_Witness ==
    /\ pc = "done"
    /\ entry = MaxSeqLen + 1
    /\ Len(rpaths) >= 3
    /\ \E c \in 1 .. Len(calls) : calls[c].entry = 1 /\ calls[c].n >= 2
    /\ \E c \in 1 .. Len(calls) : calls[c].entry = 2 /\ calls[c].n >= 2
    /\ \A i \in 1 .. Len(rpaths) : NumBundles(rpaths[i]) = 1 + MaxSeqLen

\* ---------------------------------------------------------------------
\* C27

mnkey == surf_mat_connection[surfkey][1]
pnkey == surf_mat_connection[surfkey][2]

C28_OtherSideOfSurface ==
    [][IsSwitchStep
          => IF refract_flag
             THEN /\ current_material' \in {mnmat, pnmat}
                  /\ mnmat = current_material => current_material' = pnmat
                  /\ mnmat # current_material => current_material' = mnmat
                  /\ (mnmat = current_material /\ pnmat = current_material)
                         => current_material' = current_material
             ELSE current_material' = current_material]_vars

\* the second entry was crossed from a material that is on neither side
C28_Witness ==
    /\ pc = "deflect"
    /\ entry = 2
    /\ refract_flag
    /\ current_material = mnmat
    /\ \E c \in 1 .. Len(calls) :
           calls[c].entry = 1 /\ calls[c].mat \notin {mnmat, pnmat}

\* ---------------------------------------------------------------------
\* C29

\* C29: for a sequence of two or more entries, converting it to a hitlist
\* and back gives a sequence of the same length whose i-th entry is (key of
\* the i-th entry, True, options of the i-th entry), also when a pair of
\* surfaces is crossed several times with different options.
C29_HitlistRoundTrip ==
    (hitseq # NoResult /\ Len(sequence) >= 2)
        => /\ Len(hitseq) = Len(sequence)
           /\ \A i \in 1 .. Len(sequence) :
                  hitseq[i] = <<sequence[i][1], TRUE, sequence[i][2]>>

\* the pair (A, B) is crossed twice, with different options
C29_Witness ==
    /\ hitseq # NoResult
    /\ Len(sequence) = 4
    /\ \E i, j \in 1 .. 3 :
           /\ i < j
           /\ sequence[i][1] = sequence[j][1]
           /\ sequence[i + 1][1] = sequence[j + 1][1]
           /\ sequence[i][1] # sequence[i + 1][1]
           /\ sequence[i][2] # sequence[j][2]
           /\ sequence[i + 1][2] # sequence[j + 1][2]

\* ---------------------------------------------------------------------
\* C22

\* the discriminant F^2 + H * G of ray i of the bundle handed to intersect
Discriminant(i) ==
    LET r0 == LocalStart(i)
        rayDir == LocalDir(i)
    IN  IF shape.kind = "Cylinder"
        THEN Square(Cylinder_F(shape.curv, shape.cc, r0, rayDir),
                    Cylinder_G(shape.curv, shape.cc, r0),
                    Conic_H(shape.curv, shape.cc, rayDir))
        ELSE Square(Conic_F(shape.curv, shape.cc, r0, rayDir),
                    Conic_G(shape.curv, shape.cc, r0),
                    Conic_H(shape.curv, shape.cc, rayDir))

\* C22: when Conic.intersect or Cylinder.intersect has appended its entry,
\* a ray is marked invalid exactly when its discriminant is negative, and
\* valid when the discriminant is zero or positive.
C22_ValidIffDiscriminantNotNegative ==
    (shape.kind \in {"Conic", "Cylinder"} /\ retval # NoCall /\ ~retval.raised)
        => \A i \in RayIds : Last(raybundle.valid)[i] = (Discriminant(i) >= 0)

\* ---------------------------------------------------------------------
\* C23

\* 1 - (1 + cc) * curv^2 * r^2 of coordinate i of the batch
SagRadicand(i) ==
    sqrtterm(shape.curv, shape.cc, rsquared_of(shape.kind, sagcall.xy)[i])

\* the sag of coordinate i where it is real
RealSag(i) ==
    Quot(shape.curv * rsquared_of(shape.kind, sagcall.xy)[i],
         1 + ISqrt(SagRadicand(i)))

\* C23 as stated: getSag does not raise; a coordinate with a negative
\* radicand yields not-a-number and every coordinate with a radicand that is
\* zero or positive (a real sag) yields that finite sag.
C23_RealSagIsFinite ==
    sagcall.op = "getSag"
        => /\ ~sagcall.raised
           /\ \A i \in RayIds :
                  IF SagRadicand(i) < 0 THEN sagcall.z[i] = NaN
                  ELSE sagcall.z[i] = Num(RealSag(i))

\* C23: getSag does not raise on a batch; a coordinate yields not-a-number
\* when its radicand 1 - (1 + cc) * curv^2 * r^2 is negative or zero, and
\* the finite sag when the radicand is positive, whatever the other
\* coordinates of the batch are.
C23_NaNUnlessRadicandPositive ==
    sagcall.op = "getSag"
        => /\ ~sagcall.raised
           /\ \A i \in RayIds :
                  IF SagRadicand(i) <= 0 THEN sagcall.z[i] = NaN
                  ELSE sagcall.z[i] = Num(RealSag(i))

\* a batch with a coordinate on the rim (radicand zero) next to one with a
\* finite sag
C23_Witness ==
    /\ sagcall.op = "getSag"
    /\ \E i, j \in RayIds :
           /\ SagRadicand(i) = 0
           /\ sagcall.z[i] = NaN
           /\ SagRadicand(j) > 0
           /\ sagcall.z[j] = Num(RealSag(j))

\* ---------------------------------------------------------------------
\* C25

Distance(i, j) == hermite_abs_square(nearest.kvecs_new[i][j], nearest.kvec[j])

\* C25: for every ray index j the column j of the result is a candidate of
\* column j whose Hermitian squared distance to kvec[:, j] is the smallest
\* among all candidates.
C25_ReturnsNearestCandidate ==
    nearest.op = "choose_nearest"
        => \A j \in KvecCols :
               \E i \in 1 .. KvecNewNo :
                   /\ nearest.res[j] = nearest.kvecs_new[i][j]
                   /\ \A m \in 1 .. KvecNewNo : Distance(i, j) <= Distance(m, j)

\* ---------------------------------------------------------------------
\* C30

IsSaStep == sa.op = "loop" /\ sa'.op = "loop"
IsSaReturn == sa.op = "loop" /\ sa'.op = "returned"

\* C30: with a merit function that returns the same value for the same
\* point, the merit of the best-so-far point does not rise from one step to
\* the next and is never above that of the current point, and the point
\* returned has a merit not above that of x0 or of any point accepted
\* during the run.
C30_BestSoFarNeverWorse ==
    [][/\ IsSaStep
              => /\ sa.func[sa'.xapprox] <= sa.func[sa.xapprox]
                 /\ sa.func[sa'.xapprox] <= sa.func[sa'.x]
       /\ IsSaReturn
              => /\ sa'.result = sa.xapprox
                 /\ sa.func[sa'.result] <= sa.func[sa.x0]
                 /\ \A p \in sa.accepted :
                        sa.func[sa'.result] <= sa.func[p]]_vars

\* a run that accepted a worse point after the best one
C30_Witness ==
    /\ sa.op = "returned"
    /\ sa.func[sa.result] < sa.func[sa.x0]
    /\ \E p \in sa.accepted : sa.func[p] > sa.func[sa.x0]

\* ---------------------------------------------------------------------
\* C24

\* C24: after initialize and any number of onestep calls, two different
\* entries of the sample list are at a distance of at least r.
C24_SamplesAtLeastRadiusApart ==
    pds.op = "sampling"
        => \A i, j \in 1 .. Len(pds.samplelist) :
               i # j => DistSquared(pds.samplelist[i], pds.samplelist[j])
                            >= RadiusSquared

\* three samples after two steps or more, two of them exactly r apart and
\* two of them two grid cells apart
C24_Witness ==
    /\ pds.op = "sampling"
    /\ Len(pds.samplelist) >= 3
    /\ Len(pds.activelist) < Len(pds.samplelist) - 1
    /\ \E i, j \in 1 .. Len(pds.samplelist) :
           DistSquared(pds.samplelist[i], pds.samplelist[j]) = RadiusSquared
    /\ \E i, j \in 1 .. Len(pds.samplelist) :
           XYtoG(pds.samplelist[i])[1] = XYtoG(pds.samplelist[j])[1] + 2

====
